---------------------------- MODULE Spec2Model ----------------------------
(***************************************************************************)
(* A model of the PABLO language core (src/brain/language): the graph      *)
(* builder and the .pgraph codec (graph_builder.py), the tokenizer         *)
(* (tokenizer.py), the sentence segmenter (sentences.py) and the           *)
(* vocabulary of the morphology stub (morph.py).                           *)
(*                                                                         *)
(* Python values are modelled as follows.                                  *)
(*  - An int that is written as a varint is a record [neg, mag]: mag is    *)
(*    the magnitude in base 128, least significant digit first, with no    *)
(*    trailing zero digit (0 is <<>>).  Python ints are unbounded, and     *)
(*    the codec's limits lie near 2^63 and 2^70.                           *)
(*  - An int that is written as one byte or as the 2-byte flags field is   *)
(*    an integer of the model.                                             *)
(*  - bytes is a sequence of 0..255; Optional[bytes] is [some, bytes].     *)
(*  - A call that raises is a result record with ok = FALSE and the        *)
(*    exception in err.                                                    *)
(***************************************************************************)
EXTENDS Integers, Sequences, FiniteSets, TLC

VARIABLES
    cg,        \* codec: the Graph handed to encode_pgraph
    blob,      \* codec: result of encode_pgraph(cg)
    decBuf,    \* codec: the buffer last handed to decode_pgraph
    dec,       \* codec: result of decode_pgraph(decBuf)
    reenc,     \* codec: result of encode_pgraph on the decoded Graph
    gb,        \* builder: the GraphBuilder object
    gcall,     \* builder: the last method call, its argument and its outcome
    fin,       \* builder: the Graph the last finalize() returned
    tok2id,    \* vocabulary: Vocab._tok2id
    id2tok,    \* vocabulary: Vocab._id2tok
    vcall,     \* vocabulary: the last call, its argument and what it returned
    seen,      \* vocabulary: the strings handed to get_id, in order of first sight
    sg,        \* segmenter: the frame of segment_tokens (tokens, s, k, spans, pc)
    txt,       \* tokenizer: the text under test
    tk,        \* tokenizer: the locals of the latest tokenize call
    out1,      \* tokenizer: what the first call tokenize(txt) returned
    out2,      \* tokenizer: what a later call tokenize(txt) returned
    mid,       \* tokenizer: a call on another text came between the two
    vr,        \* varint: the latest _uvarint_encode / _uvarint_decode call
    calls,     \* builder: how many add_node and add_edge calls were made, and the endpoints given
    finShares, \* builder: the lists of fin that are the builder's own list objects
    an,        \* annotation: the arguments of annotate_graph and what the call left
    mo,        \* morphology: the arguments of the analyze_tokens calls and what they returned
    hp,        \* objects: the Node objects, and the builder and the finalized Graphs that refer to them
    wk,        \* workers: the Vocabularies, and each worker's place in its get_id call
    iters      \* segmenter: how many times the loop body of segment_tokens has run

codecVars == <<cg, blob, decBuf, dec, reenc>>
builderVars == <<gb, gcall, fin, calls, finShares>>
vocabVars == <<tok2id, id2tok, vcall, seen>>
segVars == <<sg, iters>>
tokVars == <<txt, tk, out1, out2, mid>>
varintVars == <<vr>>
annVars == <<an>>
morphVars == <<mo>>
heapVars == <<hp>>
workerVars == <<wk>>

vars == <<cg, blob, decBuf, dec, reenc, gb, gcall, fin, tok2id, id2tok, vcall, seen,
          sg, txt, tk, out1, out2, mid, vr, calls, finShares, an, mo, hp, wk, iters>>

-----------------------------------------------------------------------------
(* Bounds of the model *)

MaxNodes == 2
MaxEdges == 1

-----------------------------------------------------------------------------
(* Python ints written as varints *)

RECURSIVE Digits(_)
Digits(n) == IF n = 0 THEN <<>> ELSE <<n % 128>> \o Digits(n \div 128)

\* the Python int n, for a natural number n of the model
PyInt(n) == [neg |-> FALSE, mag |-> Digits(n)]

\* a negative Python int (only its sign is ever read)
PyNeg == [neg |-> TRUE, mag |-> <<1>>]

\* 2^(7*k) - 1 and 2^(7*k)
PyOnes(k) == [neg |-> FALSE, mag |-> [j \in 1..k |-> 127]]
PyPow(k) == [neg |-> FALSE, mag |-> [j \in 1..(k + 1) |-> IF j = k + 1 THEN 1 ELSE 0]]

\* value & 0x7F, value >> 7, bool(value) for value >= 0
Low7(mag) == IF mag = <<>> THEN 0 ELSE Head(mag)
Shr7(mag) == IF mag = <<>> THEN <<>> ELSE Tail(mag)

\* value | (d << shift) for 0 <= d < 128 and value < 2^shift, shift a multiple of 7
OrShift(mag, d, shift) ==
    IF d = 0 THEN mag
    ELSE [j \in 1..(shift \div 7 + 1) |->
            IF j <= Len(mag) THEN mag[j] ELSE IF j = shift \div 7 + 1 THEN d ELSE 0]

\* the value as a natural number of the model, when it is below 2^28
IsSmall(v) == ~v.neg /\ Len(v.mag) <= 4
RECURSIVE MagToNat(_)
MagToNat(mag) == IF mag = <<>> THEN 0 ELSE Head(mag) + 128 * MagToNat(Tail(mag))
PyToNat(v) == MagToNat(v.mag)

-----------------------------------------------------------------------------
(* Results of calls that may raise *)

Raise(e, at) == [ok |-> FALSE, err |-> e, bytes |-> <<>>, value |-> PyInt(0), i |-> at]
Bytes(bs) == [ok |-> TRUE, err |-> "", bytes |-> bs, value |-> PyInt(0), i |-> 0]
Value(v, at) == [ok |-> TRUE, err |-> "", bytes |-> <<>>, value |-> v, i |-> at]

ErrNegative == "ValueError: uvarint cannot encode negative values"
ErrTruncated == "ValueError: uvarint: truncated input"
ErrTooLarge == "ValueError: uvarint: value too large"
ErrMagic == "ValueError: Invalid magic; not a .pgraph single-graph payload"
ErrFeatures == "ValueError: Truncated g_features"
ErrThumbnail == "ValueError: g_features must be 64 or 128 bytes (int8) or None"
ErrIndex == "IndexError: index out of range"

-----------------------------------------------------------------------------
(* Varint utilities: graph_builder.py 142-174 *)

RECURSIVE uvarint_encode_loop(_)
uvarint_encode_loop(mag) ==
    LET b == Low7(mag)
        value == Shr7(mag)
    IN  IF value # <<>> THEN <<b + 128>> \o uvarint_encode_loop(value)
        ELSE <<b>>

uvarint_encode(value) ==
    IF value.neg THEN Raise(ErrNegative, 0)
    ELSE Bytes(uvarint_encode_loop(value.mag))

\* the shift beyond which _uvarint_decode gives up
MaxShift == 63

\* mutant: the test shift > 63 is missing, any run of continuation bytes is read
RECURSIVE uvarint_decode_loop_NoLimit(_, _, _, _)
uvarint_decode_loop_NoLimit(buf, i, shift, mag) ==
    IF i >= Len(buf) THEN Raise(ErrTruncated, i)
    ELSE LET b == buf[i + 1]
             value == OrShift(mag, b % 128, shift)
         IN  IF b \div 128 = 0 THEN Value([neg |-> FALSE, mag |-> value], i + 1)
             ELSE uvarint_decode_loop_NoLimit(buf, i + 1, shift + 7, value)

RECURSIVE uvarint_decode_loop(_, _, _, _)
uvarint_decode_loop(buf, i, shift, mag) ==
    IF i >= Len(buf) THEN Raise(ErrTruncated, i)
    ELSE LET b == buf[i + 1]
             value == OrShift(mag, b % 128, shift)
         IN  IF b \div 128 = 0 THEN Value([neg |-> FALSE, mag |-> value], i + 1)
             ELSE IF shift + 7 > MaxShift THEN Raise(ErrTooLarge, i + 1)
             ELSE uvarint_decode_loop(buf, i + 1, shift + 7, value)

uvarint_decode(buf, offset) == uvarint_decode_loop(buf, offset, 0, <<>>)

-----------------------------------------------------------------------------
(* Enums and flags: graph_builder.py 27-91 *)

GraphType_SIMPLE == 1
GraphType_HETERO == 5
GraphType_TEMPORAL == 6
SchemaID_WRITING == 1
NodeType_TOKEN == 1
NodeType_KG_CONCEPT == 14
EdgeType_DEP == 1
EdgeType_NEXT == 9

NF_IS_STOP == 2
NF_IS_CAPITALIZED == 4
NF_IS_PUNCT == 8
NF_SENT_END_STRONG == 64
NF_SENT_END_WEAK == 128
EF_DIRECTED == 1

-----------------------------------------------------------------------------
(* Core data shapes: graph_builder.py 98-135 *)

None == [some |-> FALSE, bytes |-> <<>>]
Some(bs) == [some |-> TRUE, bytes |-> bs]

Node(node_id, n_type, sub_type, features_ref, span, flags, confidence, label_id) ==
    [node_id |-> node_id, n_type |-> n_type, sub_type |-> sub_type,
     features_ref |-> features_ref, span |-> span, flags |-> flags,
     confidence |-> confidence, label_id |-> label_id]

Edge(src_id, dst_id, e_type, weight, time, flags, confidence, attr_ref) ==
    [src_id |-> src_id, dst_id |-> dst_id, e_type |-> e_type, weight |-> weight,
     time |-> time, flags |-> flags, confidence |-> confidence, attr_ref |-> attr_ref]

Graph(graph_id, graph_type, num_nodes, num_edges, g_features, source_id, version,
      schema_id, nodes, edges) ==
    [graph_id |-> graph_id, graph_type |-> graph_type, num_nodes |-> num_nodes,
     num_edges |-> num_edges, g_features |-> g_features, source_id |-> source_id,
     version |-> version, schema_id |-> schema_id, nodes |-> nodes, edges |-> edges]

-----------------------------------------------------------------------------
(* GraphBuilder: graph_builder.py 181-268.  A method is an operator from   *)
(* the builder to [ok, err, gb, ret]: the builder after the call and the   *)
(* value returned.                                                         *)

Returned(b, r) == [ok |-> TRUE, err |-> "", gb |-> b, ret |-> r]
Raised(b, e) == [ok |-> FALSE, err |-> e, gb |-> b, ret |-> PyInt(0)]

GraphBuilder(graph_id, schema_id, graph_type, source_id, version, g_features) ==
    [graph_id |-> graph_id, schema_id |-> schema_id, graph_type |-> graph_type,
     source_id |-> source_id, version |-> version, features |-> g_features,
     nodes |-> <<>>, edges |-> <<>>]

\* mutant: one counter for nodes and edges, so an edge uses up a node id
add_node_SharedCounter(b, n_type, sub_type, label_id, span, flags, confidence, features_ref) ==
    LET node_id == PyInt(Len(b.nodes) + Len(b.edges))
    IN  Returned([b EXCEPT !.nodes = Append(@,
                     Node(node_id, n_type, sub_type, features_ref, span, flags,
                          confidence, label_id))],
                 node_id)

add_node(b, n_type, sub_type, label_id, span, flags, confidence, features_ref) ==
    LET node_id == PyInt(Len(b.nodes))
    IN  Returned([b EXCEPT !.nodes = Append(@,
                     Node(node_id, n_type, sub_type, features_ref, span, flags,
                          confidence, label_id))],
                 node_id)

\* mutant: an endpoint that is no id of a node added so far is refused
add_edge_ChecksEndpoints(b, src_id, dst_id, e_type, weight, time, flags, confidence, attr_ref) ==
    LET edges == Append(b.edges,
                        Edge(src_id, dst_id, e_type, weight, time, flags, confidence,
                             attr_ref))
        known(v) == ~v.neg /\ IsSmall(v) /\ PyToNat(v) < Len(b.nodes)
    IN  IF known(src_id) /\ known(dst_id)
        THEN Returned([b EXCEPT !.edges = edges], PyInt(Len(edges) - 1))
        ELSE Raised(b, ErrIndex)

add_edge(b, src_id, dst_id, e_type, weight, time, flags, confidence, attr_ref) ==
    LET edges == Append(b.edges,
                        Edge(src_id, dst_id, e_type, weight, time, flags, confidence,
                             attr_ref))
    IN  Returned([b EXCEPT !.edges = edges], PyInt(Len(edges) - 1))

\* mutant: the thumbnail is stored before its length is checked
set_thumbnail_StoreFirst(b, features) ==
    IF features.some /\ Len(features.bytes) \notin {64, 128}
    THEN Raised([b EXCEPT !.features = features], ErrThumbnail)
    ELSE Returned([b EXCEPT !.features = features], PyInt(0))

set_thumbnail(b, features) ==
    IF features.some /\ Len(features.bytes) \notin {64, 128}
    THEN Raised(b, ErrThumbnail)
    ELSE Returned([b EXCEPT !.features = features], PyInt(0))

finalize(b) ==
    Graph(b.graph_id, b.graph_type, PyInt(Len(b.nodes)), PyInt(Len(b.edges)),
          b.features, b.source_id, b.version, b.schema_id, b.nodes, b.edges)

\* mutant: nodes=self._nodes, edges=self._edges: the Graph holds the builder's lists
finalize_shared_NoCopy == {"nodes", "edges"}

\* The lists of the returned Graph that are the builder's own list objects:
\* none, nodes=list(self._nodes) and edges=list(self._edges) are new lists.
finalize_shared == {}

\* a Graph g as it reads once the builder is b, when it shares these lists with it
Observed(g, shared, b) ==
    [g EXCEPT !.nodes = IF "nodes" \in shared THEN b.nodes ELSE @,
              !.edges = IF "edges" \in shared THEN b.edges ELSE @]

-----------------------------------------------------------------------------
(* .pgraph codec, encoder: graph_builder.py 275-328 *)

PG_MAGIC == <<80, 71, 82, 65>>      \* b"PGRA"

\* out.append(x & 0xFF) and out += (x & 0xFFFF).to_bytes(2, "little")
U8(x) == Bytes(<<x % 256>>)
U16LE(x) == Bytes(<<(x % 65536) % 256, (x % 65536) \div 256>>)

\* out += r1; out += r2; ... : the bytes in order, or the first exception raised
RECURSIVE Cat(_)
Cat(rs) ==
    IF rs = <<>> THEN Bytes(<<>>)
    ELSE IF ~Head(rs).ok THEN Head(rs)
    ELSE LET rest == Cat(Tail(rs))
         IN  IF rest.ok THEN Bytes(Head(rs).bytes \o rest.bytes) ELSE rest

encode_header(g) ==
    Cat(<<uvarint_encode(g.graph_id), U8(g.graph_type), uvarint_encode(g.num_nodes),
          uvarint_encode(g.num_edges), uvarint_encode(g.source_id),
          uvarint_encode(g.version), U8(g.schema_id)>>)

\* mutant: the subtype byte is written before the type byte
encode_node_SubtypeFirst(n) ==
    Cat(<<uvarint_encode(n.node_id), U8(n.sub_type), U8(n.n_type),
          uvarint_encode(n.features_ref), uvarint_encode(n.span[1]),
          uvarint_encode(n.span[2]), U16LE(n.flags), U8(n.confidence),
          uvarint_encode(n.label_id)>>)

encode_node(n) ==
    Cat(<<uvarint_encode(n.node_id), U8(n.n_type), U8(n.sub_type),
          uvarint_encode(n.features_ref), uvarint_encode(n.span[1]),
          uvarint_encode(n.span[2]), U16LE(n.flags), U8(n.confidence),
          uvarint_encode(n.label_id)>>)

encode_edge(e) ==
    Cat(<<uvarint_encode(e.src_id), uvarint_encode(e.dst_id), U8(e.e_type),
          U8(e.weight), uvarint_encode(e.time), U16LE(e.flags), U8(e.confidence),
          uvarint_encode(e.attr_ref)>>)

encode_adjuncts(g) ==
    LET feat == IF g.g_features.some THEN g.g_features.bytes ELSE <<>>
    IN  Cat(<<uvarint_encode(PyInt(Len(feat))), Bytes(feat)>>)

encode_pgraph(g) ==
    Cat(<<Bytes(PG_MAGIC), encode_header(g)>>
        \o [k \in 1..Len(g.nodes) |-> encode_node(g.nodes[k])]
        \o [k \in 1..Len(g.edges) |-> encode_edge(g.edges[k])]
        \o <<encode_adjuncts(g)>>)

-----------------------------------------------------------------------------
(* .pgraph codec, decoder: graph_builder.py 331-410 *)

Min(a, b) == IF a <= b THEN a ELSE b

\* buf[a:b] for 0 <= a <= b
Slice(buf, a, b) == IF a >= Len(buf) THEN <<>> ELSE SubSeq(buf, a + 1, Min(b, Len(buf)))

\* int.from_bytes(bs, "little") for at most two bytes
FromBytesLE(bs) ==
    IF bs = <<>> THEN 0 ELSE IF Len(bs) = 1 THEN bs[1] ELSE bs[1] + 256 * bs[2]

\* x, i = _uvarint_decode(buf, i)
ReadVarint(buf, i) == uvarint_decode(buf, i)
\* x = buf[i]; i += 1
ReadU8(buf, i) == IF i >= Len(buf) THEN Raise(ErrIndex, i) ELSE Value(buf[i + 1], i + 1)
\* mutant: the flags read big-endian
ReadU16_BigEndian(buf, i) ==
    LET bs == Slice(buf, i, i + 2)
    IN  Value(IF Len(bs) = 2 THEN 256 * bs[1] + bs[2] ELSE FromBytesLE(bs), i + 2)

\* x = int.from_bytes(buf[i:i+2], "little"); i += 2
ReadU16(buf, i) == Value(FromBytesLE(Slice(buf, i, i + 2)), i + 2)

ReadField(buf, i, kind) ==
    CASE kind = "varint" -> ReadVarint(buf, i)
      [] kind = "u8" -> ReadU8(buf, i)
      [] kind = "u16" -> ReadU16(buf, i)

Fields(vs, at) == [ok |-> TRUE, err |-> "", vals |-> vs, i |-> at]
FieldsRaise(e, at) == [ok |-> FALSE, err |-> e, vals |-> <<>>, i |-> at]

\* the fields of one record read in order from offset i, or the first exception
RECURSIVE ReadFields(_, _, _, _)
ReadFields(buf, i, layout, acc) ==
    IF layout = <<>> THEN Fields(acc, i)
    ELSE LET r == ReadField(buf, i, Head(layout))
         IN  IF r.ok THEN ReadFields(buf, r.i, Tail(layout), Append(acc, r.value))
             ELSE FieldsRaise(r.err, r.i)

\* for _ in range(count): one record of the layout each
RECURSIVE ReadRecords(_, _, _, _, _, _)
ReadRecords(buf, i, count, layout, k, acc) ==
    IF Digits(k) = count.mag THEN Fields(acc, i)
    ELSE LET r == ReadFields(buf, i, layout, <<>>)
         IN  IF r.ok THEN ReadRecords(buf, r.i, count, layout, k + 1, Append(acc, r.vals))
             ELSE r

HeaderLayout == <<"varint", "u8", "varint", "varint", "varint", "varint", "u8">>
NodeLayout == <<"varint", "u8", "u8", "varint", "varint", "varint", "u16", "u8", "varint">>
EdgeLayout == <<"varint", "varint", "u8", "u8", "varint", "u16", "u8", "varint">>

DecodedNode(v) == Node(v[1], v[2], v[3], v[4], <<v[5], v[6]>>, v[7], v[8], v[9])
\* mutant: the endpoints of a decoded edge exchanged
DecodedEdge_Swapped(v) == Edge(v[2], v[1], v[3], v[4], v[5], v[6], v[7], v[8])

DecodedEdge(v) == Edge(v[1], v[2], v[3], v[4], v[5], v[6], v[7], v[8])

NoGraph == Graph(PyInt(0), 0, PyInt(0), PyInt(0), None, PyInt(0), PyInt(0), 0, <<>>, <<>>)
Decoded(g, at) == [ok |-> TRUE, err |-> "", graph |-> g, i |-> at]
DecodeRaise(e, at) == [ok |-> FALSE, err |-> e, graph |-> NoGraph, i |-> at]

\* mutant: the thumbnail is taken as sliced, its length not compared with feat_len
decode_adjuncts_Unchecked(buf, i) ==
    LET fl == ReadVarint(buf, i)
        feat_len == fl.value
        g_features == IF IsSmall(feat_len)
                      THEN Slice(buf, fl.i, fl.i + PyToNat(feat_len))
                      ELSE Slice(buf, fl.i, Len(buf))
    IN  IF ~fl.ok THEN FieldsRaise(fl.err, fl.i)
        ELSE IF feat_len.mag # <<>>
        THEN Fields(<<Some(g_features)>>, fl.i + Len(g_features))
        ELSE Fields(<<None>>, fl.i)

\* feat_len, i = _uvarint_decode(buf, i) and what follows it
decode_adjuncts(buf, i) ==
    LET fl == ReadVarint(buf, i)
        feat_len == fl.value
        g_features == IF IsSmall(feat_len)
                      THEN Slice(buf, fl.i, fl.i + PyToNat(feat_len))
                      ELSE Slice(buf, fl.i, Len(buf))
    IN  IF ~fl.ok THEN FieldsRaise(fl.err, fl.i)
        ELSE IF feat_len.mag # <<>>
        THEN IF PyInt(Len(g_features)) # feat_len THEN FieldsRaise(ErrFeatures, fl.i)
             ELSE Fields(<<Some(g_features)>>, fl.i + Len(g_features))
        ELSE Fields(<<None>>, fl.i)

\* mutant: only the first three bytes of the magic are compared
magic_ok_ThreeBytes(buf) == Slice(buf, 0, 3) = SubSeq(PG_MAGIC, 1, 3)

magic_ok(buf) == Slice(buf, 0, 4) = PG_MAGIC

decode_pgraph(buf) ==
    IF ~magic_ok(buf) THEN DecodeRaise(ErrMagic, 0)
    ELSE
    LET h == ReadFields(buf, 4, HeaderLayout, <<>>)
        ns == ReadRecords(buf, h.i, h.vals[3], NodeLayout, 0, <<>>)
        es == ReadRecords(buf, ns.i, h.vals[4], EdgeLayout, 0, <<>>)
        ad == decode_adjuncts(buf, es.i)
        nodes == [k \in 1..Len(ns.vals) |-> DecodedNode(ns.vals[k])]
        edges == [k \in 1..Len(es.vals) |-> DecodedEdge(es.vals[k])]
    IN  IF ~h.ok THEN DecodeRaise(h.err, h.i)
        ELSE IF ~ns.ok THEN DecodeRaise(ns.err, ns.i)
        ELSE IF ~es.ok THEN DecodeRaise(es.err, es.i)
        ELSE IF ~ad.ok THEN DecodeRaise(ad.err, ad.i)
        ELSE Decoded(Graph(h.vals[1], h.vals[2], PyInt(Len(nodes)), PyInt(Len(edges)),
                           ad.vals[1], h.vals[5], h.vals[6], h.vals[7], nodes, edges),
                     ad.i)

-----------------------------------------------------------------------------
(* The graphs handed to the codec: everything GraphBuilder can return      *)
(* within the bounds, for sample arguments that lie on the edges of the    *)
(* declared ranges and beyond them.                                        *)

SeqsUpTo(S, n) == UNION {[1..k -> S] : k \in 0..n}

\* a thumbnail of n bytes (int8 values seen as bytes)
Thumb(n) == [j \in 1..n |-> (j * 37) % 256]

ThumbSamples == {None, Some(<<>>), Some(Thumb(64)), Some(Thumb(65)), Some(Thumb(128))}

\* <<graph_id, schema_id, graph_type, source_id, version>>
SelfCheckHeader == <<PyInt(1), SchemaID_WRITING, GraphType_HETERO, PyInt(0), PyInt(1)>>

HeaderSamples ==
    { SelfCheckHeader,
      <<PyOnes(10), SchemaID_WRITING, GraphType_TEMPORAL, PyInt(300), PyInt(128)>>,
      <<PyPow(10), SchemaID_WRITING, GraphType_SIMPLE, PyInt(0), PyInt(1)>>,
      <<PyInt(1), 257, 261, PyInt(0), PyInt(1)>>,
      <<PyInt(1), SchemaID_WRITING, GraphType_HETERO, PyNeg, PyInt(1)>> }

\* <<n_type, sub_type, label_id, span, flags, confidence, features_ref>>
NodeSamples ==
    { <<NodeType_TOKEN, 0, PyInt(123), <<PyInt(0), PyInt(1)>>, NF_IS_CAPITALIZED, 240, PyInt(0)>>,
      <<NodeType_KG_CONCEPT, 255, PyOnes(9), <<PyInt(127), PyInt(128)>>, 65535, 0, PyInt(300)>>,
      <<300, -1, PyInt(0), <<PyInt(0), PyInt(0)>>, 65536 + 128, 256, PyInt(0)>> }

\* <<src_id, dst_id, e_type, weight, time, flags, confidence, attr_ref>>
EdgeSamples ==
    { <<PyInt(0), PyInt(1), EdgeType_NEXT, 255, PyInt(0), EF_DIRECTED, 255, PyInt(0)>>,
      <<PyInt(5), PyInt(16384), EdgeType_DEP, 0, PyPow(9), 65535, 0, PyInt(128)>> }

RECURSIVE AddNodes(_, _)
AddNodes(b, as) ==
    IF as = <<>> THEN b
    ELSE LET a == Head(as)
         IN  AddNodes(add_node(b, a[1], a[2], a[3], a[4], a[5], a[6], a[7]).gb, Tail(as))

RECURSIVE AddEdges(_, _)
AddEdges(b, as) ==
    IF as = <<>> THEN b
    ELSE LET a == Head(as)
         IN  AddEdges(add_edge(b, a[1], a[2], a[3], a[4], a[5], a[6], a[7], a[8]).gb, Tail(as))

BuiltGraph(h, th, ns, es) ==
    finalize(AddEdges(AddNodes(GraphBuilder(h[1], h[2], h[3], h[4], h[5], th), ns), es))

\* the constructor's arguments
BuilderSamples == HeaderSamples \X ThumbSamples

CodecGraphs ==
    { BuiltGraph(c[1], c[2], ns, es) :
        c \in BuilderSamples,
        ns \in SeqsUpTo(NodeSamples, MaxNodes), es \in SeqsUpTo(EdgeSamples, MaxEdges) }

-----------------------------------------------------------------------------
(* The state of a component that a specification does not exercise *)

NoCall == [op |-> "none", ok |-> TRUE, err |-> "", ret |-> PyInt(0), arg |-> None]
NoVocabCall == [op |-> "none", s |-> "", i |-> 0, id |-> 0, str |-> ""]
NoCalls == [nodes |-> 0, edges |-> 0, endpoints |-> <<>>, finalized |-> FALSE]

BuilderIdle ==
    /\ gb = GraphBuilder(PyInt(0), SchemaID_WRITING, GraphType_HETERO, PyInt(0), PyInt(1), None)
    /\ gcall = NoCall
    /\ fin = NoGraph
    /\ calls = NoCalls
    /\ finShares = {}

VocabIdle ==
    /\ tok2id = <<>>
    /\ id2tok = <<>>
    /\ vcall = NoVocabCall
    /\ seen = <<>>

NoResult == [some |-> FALSE, tokens |-> <<>>]
NoFrame == [text |-> <<>>, i |-> 0, idx |-> 0, tokens |-> <<>>, kinds |-> <<>>]

SegIdle ==
    /\ sg = [tokens |-> <<>>, n |-> 0, s |-> 0, k |-> 0, spans |-> <<>>, pc |-> "idle"]
    /\ iters = 0

TokIdle ==
    /\ txt = <<>>
    /\ tk = NoFrame
    /\ out1 = NoResult
    /\ out2 = NoResult
    /\ mid = FALSE

VarintIdle == vr = [op |-> "none", value |-> PyInt(0), enc |-> Bytes(<<>>), buf |-> <<>>, offset |-> 0, res |-> Value(PyInt(0), 0)]

AnnIdle == an = [pc |-> "idle", before |-> <<>>, tokens |-> <<>>, morphs |-> <<>>, nodes |-> <<>>, ok |-> TRUE, err |-> ""]

MorphIdle == mo = [pc |-> "idle", ncalls |-> 0, tokens |-> <<>>, out |-> <<>>, hist |-> <<>>]

HeapIdle == hp = [heap |-> <<>>, gb |-> GraphBuilder(PyInt(0), SchemaID_WRITING, GraphType_HETERO, PyInt(0), PyInt(1), None), g1 |-> NoGraph, g2 |-> NoGraph, applied |-> 0, tokens |-> <<>>, morphs |-> <<>>]

WorkersIdle == wk = [shared |-> FALSE, vocab |-> <<>>, at |-> <<>>]

-----------------------------------------------------------------------------
(* The codec as a state machine: a graph is encoded, and the bytes, a      *)
(* strict prefix of them or a copy with a damaged magic are decoded; a     *)
(* decoded graph is encoded again.                                         *)

NotCalled == "not called"
Called(r) == r.ok \/ r.err # NotCalled

TamperBytes == {0, 65, 80, 255}

CodecAt(g) ==
    /\ cg = g
    /\ blob = Raise(NotCalled, 0)
    /\ decBuf = <<>>
    /\ dec = DecodeRaise(NotCalled, 0)
    /\ reenc = Raise(NotCalled, 0)

InitCodec ==
    /\ WorkersIdle
    /\ HeapIdle
    /\ MorphIdle
    /\ AnnIdle
    /\ VarintIdle
    /\ SegIdle
    /\ TokIdle
    /\ \E g \in CodecGraphs : CodecAt(g)
    /\ BuilderIdle
    /\ VocabIdle

Encode ==
    /\ ~Called(blob)
    /\ blob' = encode_pgraph(cg)
    /\ UNCHANGED <<cg, decBuf, dec, reenc>>
    /\ UNCHANGED <<builderVars, vocabVars, segVars, tokVars, varintVars, annVars, morphVars, heapVars, workerVars>>

Decode(buf) ==
    /\ ~Called(dec)
    /\ decBuf' = buf
    /\ dec' = decode_pgraph(buf)
    /\ reenc' = Raise(NotCalled, 0)
    /\ UNCHANGED <<cg, blob>>
    /\ UNCHANGED <<builderVars, vocabVars, segVars, tokVars, varintVars, annVars, morphVars, heapVars, workerVars>>

DecodeBlob == blob.ok /\ Decode(blob.bytes)

DecodePrefix == blob.ok /\ \E k \in 0..(Len(blob.bytes) - 1) : Decode(SubSeq(blob.bytes, 1, k))

\* the bytes, or their first 4 or 5, with one byte of the magic replaced
DecodeTampered ==
    /\ blob.ok
    /\ \E j \in 1..4, c \in TamperBytes, k \in {4, 5, Len(blob.bytes)} :
          /\ c # blob.bytes[j]
          /\ Decode([SubSeq(blob.bytes, 1, k) EXCEPT ![j] = c])

ReEncode ==
    /\ dec.ok
    /\ ~Called(reenc)
    /\ reenc' = encode_pgraph(dec.graph)
    /\ UNCHANGED <<cg, blob, decBuf, dec>>
    /\ UNCHANGED <<builderVars, vocabVars, segVars, tokVars, varintVars, annVars, morphVars, heapVars, workerVars>>

NextCodec == Encode \/ DecodeBlob \/ DecodePrefix \/ DecodeTampered \/ ReEncode

SpecCodec == InitCodec /\ [][NextCodec]_vars

-----------------------------------------------------------------------------
(* Ranges of a Graph's fields *)

Range(f) == {f[x] : x \in DOMAIN f}

VarintFields(g) ==
    {g.graph_id, g.num_nodes, g.num_edges, g.source_id, g.version}
    \cup UNION {{n.node_id, n.features_ref, n.span[1], n.span[2], n.label_id} : n \in Range(g.nodes)}
    \cup UNION {{e.src_id, e.dst_id, e.time, e.attr_ref} : e \in Range(g.edges)}

ByteFields(g) ==
    {g.graph_type, g.schema_id}
    \cup UNION {{n.n_type, n.sub_type, n.confidence} : n \in Range(g.nodes)}
    \cup UNION {{e.e_type, e.weight, e.confidence} : e \in Range(g.edges)}

FlagFields(g) == {n.flags : n \in Range(g.nodes)} \cup {e.flags : e \in Range(g.edges)}

CountsMatch(g) == g.num_nodes = PyInt(Len(g.nodes)) /\ g.num_edges = PyInt(Len(g.edges))

ThumbLen(g) == IF g.g_features.some THEN Len(g.g_features.bytes) ELSE 0

\* the ranges the specification declares
InDeclaredRange(g) ==
    /\ \A v \in VarintFields(g) : ~v.neg
    /\ \A x \in ByteFields(g) : x \in 0..255
    /\ \A x \in FlagFields(g) : x \in 0..65535
    /\ CountsMatch(g)
    /\ ThumbLen(g) \in {0, 64, 128}

\* the ranges the codec carries: a varint of at most 10 bytes (a value below
\* 2^70), and a thumbnail that is absent or of 64 or 128 bytes
InCodecRange(g) ==
    /\ InDeclaredRange(g)
    /\ \A v \in VarintFields(g) : Len(v.mag) <= 10
    /\ ~g.g_features.some \/ ThumbLen(g) \in {64, 128}

\* decode_pgraph was called on exactly the bytes encode_pgraph(cg) returned
DecodedBlob == blob.ok /\ Called(dec) /\ decBuf = blob.bytes

\* decode_pgraph was called on a strict prefix of those bytes
DecodedStrictPrefix ==
    /\ blob.ok /\ Called(dec)
    /\ Len(decBuf) < Len(blob.bytes)
    /\ decBuf = SubSeq(blob.bytes, 1, Len(decBuf))

-----------------------------------------------------------------------------
(* C1: for every Graph g within the ranges the codec carries (varint   *)
(* fields in 0..2^70-1, byte fields in 0..255, flags in 0..65535, counts   *)
(* equal to the list lengths, thumbnail absent or of 64 or 128 bytes),     *)
(* encode_pgraph(g) succeeds and decode_pgraph of it returns g field for   *)
(* field.                                                                  *)
C1_RoundTrip ==
    InCodecRange(cg) =>
        /\ Called(blob) => blob.ok
        /\ DecodedBlob => dec.ok /\ dec.graph = cg

\* C1 as the specification states it: the same for every Graph within the
\* declared ranges (varint fields non-negative, thumbnail absent or of length
\* 0, 64 or 128).
C1_RoundTripDeclared ==
    InDeclaredRange(cg) =>
        /\ Called(blob) => blob.ok
        /\ DecodedBlob => dec.ok /\ dec.graph = cg

\* a graph in range with nodes, an edge and a thumbnail has made the round trip
C1_Witness ==
    /\ InCodecRange(cg) /\ DecodedBlob /\ dec.ok
    /\ Len(cg.nodes) = 2 /\ Len(cg.edges) = 1 /\ ThumbLen(cg) = 64

C8_EncodeChecksThumbnail ==
    Called(blob) =>
        /\ ThumbLen(cg) \notin {0, 64, 128} =>
              ~blob.ok /\ blob.err = ErrThumbnail /\ blob.bytes = <<>>
        /\ ~blob.ok => blob.bytes = <<>>

MagicDiffers(buf) == \E j \in 1..4 : j > Len(buf) \/ buf[j] # PG_MAGIC[j]

C10_InvalidMagic ==
    (Called(dec) /\ MagicDiffers(decBuf)) => ~dec.ok /\ dec.err = ErrMagic /\ dec.i = 0

\* a buffer that differs from a decodable one only in the magic's last byte
C10_Witness ==
    /\ Called(dec) /\ blob.ok /\ Len(decBuf) = Len(blob.bytes)
    /\ decBuf[4] # PG_MAGIC[4] /\ SubSeq(decBuf, 1, 3) = SubSeq(PG_MAGIC, 1, 3)
    /\ decode_pgraph(blob.bytes).ok /\ dec.err = ErrMagic

-----------------------------------------------------------------------------
(* The builder as a state machine: one object, constructed with any        *)
(* g_features, and its four methods called in any order.                   *)

ThumbLens == {0, 1, 63, 64, 65, 127, 128, 129}
SetThumbSamples == {None} \cup {Some(Thumb(n)) : n \in ThumbLens}

Call(name, r, a) == [op |-> name, ok |-> r.ok, err |-> r.err, ret |-> r.ret, arg |-> a]

InitBuilder ==
    /\ WorkersIdle
    /\ HeapIdle
    /\ MorphIdle
    /\ AnnIdle
    /\ VarintIdle
    /\ SegIdle
    /\ TokIdle
    /\ \E th \in ThumbSamples :
          gb = GraphBuilder(SelfCheckHeader[1], SelfCheckHeader[2], SelfCheckHeader[3],
                            SelfCheckHeader[4], SelfCheckHeader[5], th)
    /\ gcall = NoCall
    /\ fin = NoGraph
    /\ calls = NoCalls
    /\ finShares = {}
    /\ CodecAt(NoGraph)
    /\ VocabIdle

AddNode ==
    /\ Len(gb.nodes) < MaxNodes
    /\ \E a \in NodeSamples :
          LET r == add_node(gb, a[1], a[2], a[3], a[4], a[5], a[6], a[7])
          IN  gb' = r.gb /\ gcall' = Call("add_node", r, None)
    /\ calls' = [calls EXCEPT !.nodes = @ + 1]
    /\ fin' = Observed(fin, finShares, gb')
    /\ UNCHANGED finShares
    /\ UNCHANGED <<codecVars, vocabVars, segVars, tokVars, varintVars, annVars, morphVars, heapVars, workerVars>>

AddEdge ==
    /\ Len(gb.edges) < MaxEdges
    /\ \E a \in EdgeSamples :
          LET r == add_edge(gb, a[1], a[2], a[3], a[4], a[5], a[6], a[7], a[8])
          IN  /\ gb' = r.gb /\ gcall' = Call("add_edge", r, None)
              /\ calls' = [calls EXCEPT !.edges = @ + 1,
                                        !.endpoints = Append(@, <<a[1], a[2]>>)]
    /\ fin' = Observed(fin, finShares, gb')
    /\ UNCHANGED finShares
    /\ UNCHANGED <<codecVars, vocabVars, segVars, tokVars, varintVars, annVars, morphVars, heapVars, workerVars>>

SetThumbnail ==
    /\ \E features \in SetThumbSamples :
          LET r == set_thumbnail(gb, features)
          IN  gb' = r.gb /\ gcall' = Call("set_thumbnail", r, features)
    /\ fin' = Observed(fin, finShares, gb')
    /\ UNCHANGED <<calls, finShares>>
    /\ UNCHANGED <<codecVars, vocabVars, segVars, tokVars, varintVars, annVars, morphVars, heapVars, workerVars>>

Finalize ==
    /\ fin' = finalize(gb)
    /\ finShares' = finalize_shared
    /\ gcall' = Call("finalize", Returned(gb, PyInt(0)), None)
    /\ calls' = [calls EXCEPT !.finalized = TRUE]
    /\ UNCHANGED gb
    /\ UNCHANGED <<codecVars, vocabVars, segVars, tokVars, varintVars, annVars, morphVars, heapVars, workerVars>>

NextBuilder == AddNode \/ AddEdge \/ SetThumbnail \/ Finalize

SpecBuilder == InitBuilder /\ [][NextBuilder]_vars

\* the argument of set_thumbnail is one the method accepts
ThumbAccepted(a) == ~a.some \/ Len(a.bytes) \in {64, 128}

(* C7: set_thumbnail succeeds, and stores its argument, when the        *)
(* argument is None or a byte string of length 64 or 128; for every other  *)
(* length, 0 and 65 included, it fails with the invalid-thumbnail-length   *)
(* error and leaves the builder as it was before the call.                 *)
C7_SetThumbnail ==
    [][gcall'.op = "set_thumbnail" =>
          /\ gcall'.ok <=> ThumbAccepted(gcall'.arg)
          /\ gcall'.ok => gb' = [gb EXCEPT !.features = gcall'.arg]
          /\ ~gcall'.ok => gcall'.err = ErrThumbnail /\ gb' = gb]_vars

\* C7 as the specification states it: the call succeeds when the argument is
\* None or of length 0, 64 or 128, and fails for every other length.
C7_SetThumbnailDeclared ==
    gcall.op = "set_thumbnail" =>
        (gcall.ok <=> (~gcall.arg.some \/ Len(gcall.arg.bytes) \in {0, 64, 128}))

\* a 65-byte thumbnail was refused and the 64-byte one set before is still held
C7_Witness ==
    /\ gcall.op = "set_thumbnail" /\ ~gcall.ok /\ gcall.err = ErrThumbnail
    /\ Len(gcall.arg.bytes) = 65
    /\ gb.features = Some(Thumb(64))

-----------------------------------------------------------------------------
(* Vocab: morph.py 70-86.  The dict _tok2id is a function on the strings   *)
(* it holds, the list _id2tok a sequence.  A method is an operator from    *)
(* the two to [tok2id, id2tok, ret].                                       *)

\* self._tok2id[s] = idx
DictSet(d, s, idx) == [x \in DOMAIN d \cup {s} |-> IF x = s THEN idx ELSE d[x]]

\* mutant: ids counted from 0 (the reserved id is handed out)
get_id_FromZero(d, l, s) ==
    IF s \in DOMAIN d THEN [tok2id |-> d, id2tok |-> l, ret |-> d[s]]
    ELSE LET idx == Len(l)
         IN  [tok2id |-> DictSet(d, s, idx), id2tok |-> Append(l, s), ret |-> idx]

get_id(d, l, s) ==
    IF s \in DOMAIN d THEN [tok2id |-> d, id2tok |-> l, ret |-> d[s]]
    ELSE LET idx == Len(l) + 1
         IN  [tok2id |-> DictSet(d, s, idx), id2tok |-> Append(l, s), ret |-> idx]

get_str(l, i) == IF i <= 0 \/ i > Len(l) THEN "" ELSE l[i]

\* the strings interned in the model; "" is a string like any other
LemmaSamples == {"", "be", "the", "Don", "."}

InitVocab ==
    /\ WorkersIdle
    /\ HeapIdle
    /\ MorphIdle
    /\ AnnIdle
    /\ VarintIdle
    /\ SegIdle
    /\ TokIdle
    /\ tok2id = <<>>
    /\ id2tok = <<>>
    /\ vcall = NoVocabCall
    /\ seen = <<>>
    /\ CodecAt(NoGraph)
    /\ BuilderIdle

GetId ==
    /\ \E s \in LemmaSamples :
          LET r == get_id(tok2id, id2tok, s)
          IN  /\ tok2id' = r.tok2id
              /\ id2tok' = r.id2tok
              /\ vcall' = [op |-> "get_id", s |-> s, i |-> 0, id |-> r.ret, str |-> ""]
              /\ seen' = IF \E j \in 1..Len(seen) : seen[j] = s THEN seen ELSE Append(seen, s)
    /\ UNCHANGED <<codecVars, builderVars, segVars, tokVars, varintVars, annVars, morphVars, heapVars, workerVars>>

GetStr ==
    /\ \E i \in (-1)..(Len(id2tok) + 1) :
          vcall' = [op |-> "get_str", s |-> "", i |-> i, id |-> 0, str |-> get_str(id2tok, i)]
    /\ UNCHANGED <<tok2id, id2tok, seen>>
    /\ UNCHANGED <<codecVars, builderVars, segVars, tokVars, varintVars, annVars, morphVars, heapVars, workerVars>>

NextVocab == GetId \/ GetStr

SpecVocab == InitVocab /\ [][NextVocab]_vars

(* C6: on a Vocabulary used by one worker, every get_id(s) returns the   *)
(* position of s in the order of first sight, counted from 1: the same     *)
(* string gets the same id, distinct strings get distinct ids, the ids     *)
(* are 1..k and never 0; an id once assigned stays (in every step) and     *)
(* get_str of it returns the string.                                       *)
C6_VocabIds ==
    /\ [](/\ vcall.op = "get_id" =>
                /\ vcall.id \in 1..Len(seen)
                /\ seen[vcall.id] = vcall.s
                /\ get_str(id2tok, vcall.id) = vcall.s
          /\ \A j \in 1..Len(seen) : get_str(id2tok, tok2id[seen[j]]) = seen[j])
    /\ [][/\ \A s \in DOMAIN tok2id : s \in DOMAIN tok2id' /\ tok2id'[s] = tok2id[s]
          /\ \A j \in 1..Len(id2tok) : j <= Len(id2tok') /\ id2tok'[j] = id2tok[j]]_vars

\* a string seen before was handed to get_id again after two others, and got
\* its first id
C6_Witness ==
    /\ vcall.op = "get_id" /\ vcall.id = 1 /\ Len(seen) = 3
    /\ get_str(id2tok, 1) = vcall.s


-----------------------------------------------------------------------------
(* The tokenizer (tokenizer.py).  A text is a sequence of characters; a    *)
(* character is a one-character string, or the name of its code point     *)
(* ("U+2026" is the ellipsis character).  Offsets count from 0 as in       *)
(* Python.                                                                 *)

TF_CAP == 1
TF_PUNCT == 2
TF_NUM == 4
TF_SENT_END_STRONG == 8
TF_SENT_END_WEAK == 16

\* flags & bit, and flags | bit, for a bit that is a power of two
HasFlag(flags, bit) == (flags \div bit) % 2 = 1
OrFlag(flags, bit) == IF HasFlag(flags, bit) THEN flags ELSE flags + bit

Token(idx, text, start, end, flags) ==
    [idx |-> idx, text |-> text, start |-> start, end |-> end, flags |-> flags]

\* character classes of the grammar and of str.isdigit/isalpha/isupper
AsciiLower ==
    {"a", "b", "c", "d", "e", "f", "g", "h", "i", "j", "k", "l", "m",
     "n", "o", "p", "q", "r", "s", "t", "u", "v", "w", "x", "y", "z"}
AsciiUpper ==
    {"A", "B", "C", "D", "E", "F", "G", "H", "I", "J", "K", "L", "M",
     "N", "O", "P", "Q", "R", "S", "T", "U", "V", "W", "X", "Y", "Z"}
AsciiDigit == {"0", "1", "2", "3", "4", "5", "6", "7", "8", "9"}
AsciiLetter == AsciiLower \cup AsciiUpper
AsciiAlnum == AsciiLetter \cup AsciiDigit
Whitespace == {" ", "\n"}
IsDigit(ch) == ch \in AsciiDigit
IsAlpha(ch) == ch \in AsciiLetter \cup {"U+00C9"}
IsUpper(ch) == ch \in AsciiUpper \cup {"U+00C9"}

EmailLocalChars == AsciiAlnum \cup {".", "_", "%", "+", "-"}
EmailDomainChars == AsciiAlnum \cup {".", "-"}
HandleChars == AsciiAlnum \cup {"_"}
WordJoiners == {"U+2019", "'", "-"}
PunctChars ==
    {".", ",", "?", "!", ";", ":", "(", ")", "[", "]", "{", "}", "\"",
     "U+201C", "U+201D", "U+2018", "U+2019", "U+2014", "U+2013", "-"}

TERMINATORS_STRONG == {<<".">>, <<"?">>, <<"!">>}
TERMINATORS_WEAK == {<<"U+2026">>, <<".", ".", ".">>}
CLOSERS == {<<"\"">>, <<"U+201D">>, <<"U+2019">>, <<"'">>, <<")">>, <<"]">>, <<"}">>, <<"U+00BB">>}

\* text[p] and text[a:b] with Python's offsets
At(text, p) == text[p + 1]
Piece(text, a, b) == [j \in 1..(b - a) |-> text[a + j]]

\* where the longest run of characters of S (not of S) that starts at p ends
RunEnd(text, p, S) ==
    CHOOSE q \in p..Len(text) :
        /\ \A r \in p..(q - 1) : At(text, r) \in S
        /\ q = Len(text) \/ At(text, q) \notin S
RunEndNot(text, p, S) ==
    CHOOSE q \in p..Len(text) :
        /\ \A r \in p..(q - 1) : At(text, r) \notin S
        /\ q = Len(text) \/ At(text, q) \in S
StartsWith(text, p, lit) ==
    /\ p + Len(lit) <= Len(text)
    /\ \A j \in 1..Len(lit) : text[p + j] = lit[j]

\* Each alternative of _MASTER, tried at offset p < Len(text): the offset
\* where its match ends, or -1 when it does not match there.
NoMatch == -1

\* https?://\S+ | www\.\S+
match_URL(text, p) ==
    LET after ==
            IF StartsWith(text, p, <<"h", "t", "t", "p", "s", ":", "/", "/">>) THEN p + 8
            ELSE IF StartsWith(text, p, <<"h", "t", "t", "p", ":", "/", "/">>) THEN p + 7
            ELSE IF StartsWith(text, p, <<"w", "w", "w", ".">>) THEN p + 4
            ELSE NoMatch
    IN  IF after = NoMatch THEN NoMatch
        ELSE IF RunEndNot(text, after, Whitespace) > after
             THEN RunEndNot(text, after, Whitespace)
             ELSE NoMatch

\* [A-Za-z0-9._%+\-]+@[A-Za-z0-9.\-]+\.[A-Za-z]{2,} : the local part is the
\* whole run before the "@"; the domain is greedy and gives characters back
\* until a "." and two letters follow it.
match_EMAIL(text, p) ==
    LET a == RunEnd(text, p, EmailLocalChars)
    IN  IF ~(a > p /\ a < Len(text) /\ At(text, a) = "@") THEN NoMatch
        ELSE LET b == RunEnd(text, a + 1, EmailDomainChars)
                 dots == { m \in (a + 2)..(b - 1) :
                             /\ At(text, m) = "."
                             /\ RunEnd(text, m + 1, AsciiLetter) >= m + 3 }
             IN  IF dots = {} THEN NoMatch
                 ELSE LET m == CHOOSE d \in dots : \A o \in dots : o <= d
                      IN  RunEnd(text, m + 1, AsciiLetter)

\* [@#][A-Za-z0-9_]+
match_HANDLE(text, p) ==
    IF At(text, p) \in {"@", "#"} /\ RunEnd(text, p + 1, HandleChars) > p + 1
    THEN RunEnd(text, p + 1, HandleChars)
    ELSE NoMatch

\* … | \.{3}
match_ELLIPSIS(text, p) ==
    IF At(text, p) = "U+2026" THEN p + 1
    ELSE IF StartsWith(text, p, <<".", ".", ".">>) THEN p + 3
    ELSE NoMatch

\* (?:[’'\-][A-Za-z0-9]+)* from offset a on
RECURSIVE word_tail(_, _)
word_tail(text, a) ==
    IF a < Len(text) /\ At(text, a) \in WordJoiners /\ RunEnd(text, a + 1, AsciiAlnum) > a + 1
    THEN word_tail(text, RunEnd(text, a + 1, AsciiAlnum))
    ELSE a

\* [A-Za-z0-9]+(?:[’'\-][A-Za-z0-9]+)*
match_WORD(text, p) ==
    IF RunEnd(text, p, AsciiAlnum) > p THEN word_tail(text, RunEnd(text, p, AsciiAlnum))
    ELSE NoMatch

match_PUNCT(text, p) == IF At(text, p) \in PunctChars THEN p + 1 ELSE NoMatch

\* \s+
match_WS(text, p) ==
    IF RunEnd(text, p, Whitespace) > p THEN RunEnd(text, p, Whitespace) ELSE NoMatch

\* _MASTER tried at offset p: the first alternative that matches (m.lastgroup
\* and the end of m.span()), kind "NONE" when none does
Match(kind, end) == [kind |-> kind, end |-> end]
MASTER_match(text, p) ==
    IF match_URL(text, p) # NoMatch THEN Match("URL", match_URL(text, p))
    ELSE IF match_EMAIL(text, p) # NoMatch THEN Match("EMAIL", match_EMAIL(text, p))
    ELSE IF match_HANDLE(text, p) # NoMatch THEN Match("HANDLE", match_HANDLE(text, p))
    ELSE IF match_ELLIPSIS(text, p) # NoMatch THEN Match("ELLIPSIS", match_ELLIPSIS(text, p))
    ELSE IF match_WORD(text, p) # NoMatch THEN Match("WORD", match_WORD(text, p))
    ELSE IF match_PUNCT(text, p) # NoMatch THEN Match("PUNCT", match_PUNCT(text, p))
    ELSE IF match_WS(text, p) # NoMatch THEN Match("WS", match_WS(text, p))
    ELSE Match("NONE", p)

\* any(ch.isdigit() for ch in piece), any(ch.isalpha() ...), piece[0].isupper()
AnyDigit(piece) == \E j \in 1..Len(piece) : IsDigit(piece[j])
AnyAlpha(piece) == \E j \in 1..Len(piece) : IsAlpha(piece[j])
FirstUpper(piece) == Len(piece) > 0 /\ IsUpper(piece[1])

\* the flags a match of the given kind starts with
\* mutant: the capitalized flag is computed for a match of any kind
match_flags_CapAnyKind(kind, piece) ==
    LET punct == IF kind \in {"PUNCT", "ELLIPSIS"} THEN TF_PUNCT ELSE 0
        num == IF kind \in {"WORD", "URL", "EMAIL", "HANDLE"} /\ AnyDigit(piece)
               THEN TF_NUM ELSE 0
        cap == IF AnyAlpha(piece) /\ FirstUpper(piece) THEN TF_CAP ELSE 0
    IN  punct + num + cap

match_flags(kind, piece) ==
    LET punct == IF kind \in {"PUNCT", "ELLIPSIS"} THEN TF_PUNCT ELSE 0
        num == IF kind \in {"WORD", "URL", "EMAIL", "HANDLE"} /\ AnyDigit(piece)
               THEN TF_NUM ELSE 0
        cap == IF kind = "WORD" /\ AnyAlpha(piece) /\ FirstUpper(piece) THEN TF_CAP ELSE 0
    IN  punct + num + cap

\* mutant: idx is not reset, it goes on from where the latest call left it
NewFrame_KeepIdx(text) ==
    [text |-> text, i |-> 0, idx |-> tk.idx, tokens |-> <<>>, kinds |-> <<>>]

\* the locals of tokenize as it starts on a text
NewFrame(text) ==
    [text |-> text, i |-> 0, idx |-> 0, tokens |-> <<>>, kinds |-> <<>>]

\* the body of the for loop for one match m that starts at offset s
on_match(f, m, s) ==
    IF m.kind = "WS" THEN [f EXCEPT !.i = m.end]
    ELSE LET piece == Piece(f.text, s, m.end)
         IN  [f EXCEPT !.tokens = Append(@, Token(f.idx, piece, s, m.end,
                                                   match_flags(m.kind, piece))),
                       !.kinds = Append(@, m.kind),
                       !.idx = @ + 1,
                       !.i = m.end]

\* for m in _MASTER.finditer(text): the search goes on at the end of a match,
\* and one character further where nothing matches
RECURSIVE finditer_loop(_, _)
finditer_loop(f, pos) ==
    IF pos >= Len(f.text) THEN f
    ELSE LET m == MASTER_match(f.text, pos)
         IN  IF m.kind = "NONE" THEN finditer_loop(f, pos + 1)
             ELSE finditer_loop(on_match(f, m, pos), m.end)

\* if i < len(text): one token for what follows the last match
fallback(f) ==
    IF f.i < Len(f.text)
    THEN LET piece == Piece(f.text, f.i, Len(f.text))
             num == IF AnyDigit(piece) THEN TF_NUM ELSE 0
             cap == IF AnyAlpha(piece) /\ FirstUpper(piece) THEN TF_CAP ELSE 0
         IN  [f EXCEPT !.tokens = Append(@, Token(f.idx, piece, f.i, Len(f.text), num + cap)),
                       !.kinds = Append(@, "WORD")]
    ELSE f

\* mutant: only the closer right after the terminator is flagged
bubble_weak_OnlyFirst(tokens, j) ==
    IF j < Len(tokens) /\ tokens[j + 1].text \in CLOSERS
    THEN [tokens EXCEPT ![j + 1].flags = OrFlag(@, TF_SENT_END_WEAK)]
    ELSE tokens

\* while j < n and tokens[j].text in _CLOSERS: tokens[j].flags |= TF_SENT_END_WEAK
RECURSIVE bubble_weak(_, _)
bubble_weak(tokens, j) ==
    IF j < Len(tokens) /\ tokens[j + 1].text \in CLOSERS
    THEN bubble_weak([tokens EXCEPT ![j + 1].flags = OrFlag(@, TF_SENT_END_WEAK)], j + 1)
    ELSE tokens

\* the post-pass over tokens k, k+1, ..., n-1
RECURSIVE post_pass(_, _, _)
post_pass(tokens, kinds, k) ==
    IF k >= Len(tokens) THEN tokens
    ELSE IF kinds[k + 1] \in {"PUNCT", "ELLIPSIS"} /\ tokens[k + 1].text \in TERMINATORS_STRONG
         THEN post_pass(bubble_weak([tokens EXCEPT ![k + 1].flags = OrFlag(@, TF_SENT_END_STRONG)],
                                    k + 1),
                        kinds, k + 1)
    ELSE IF kinds[k + 1] \in {"PUNCT", "ELLIPSIS"} /\ tokens[k + 1].text \in TERMINATORS_WEAK
         THEN post_pass([tokens EXCEPT ![k + 1].flags = OrFlag(@, TF_SENT_END_WEAK)], kinds, k + 1)
    ELSE post_pass(tokens, kinds, k + 1)

\* tokenize from its locals on: the loop, the fallback, the post-pass
run_tokenize(f) ==
    LET g == fallback(finditer_loop(f, 0))
    IN  [g EXCEPT !.tokens = post_pass(g.tokens, g.kinds, 0)]

tokenize(text) == run_tokenize(NewFrame(text)).tokens

-----------------------------------------------------------------------------
(* The sentence segmenter (sentences.py).  The frame of segment_tokens is  *)
(* [tokens, n, s, k, spans, pc]; one step is one pass of the outer while    *)
(* loop, or the return.                                                    *)

ELLIPSIS_TEXTS == {<<"U+2026">>, <<".", ".", ".">>}

segment_enter(tokens) ==
    [tokens |-> tokens, n |-> Len(tokens), s |-> 0, k |-> 0, spans |-> <<>>, pc |-> "loop"]

\* mutant: no closer is absorbed, the sentence ends at the strong terminator
weak_run_None(tokens, j, end) == end

\* while j < n and (tokens[j].flags & TF_SENT_END_WEAK): end = j; j += 1
RECURSIVE weak_run(_, _, _)
weak_run(tokens, j, end) ==
    IF j < Len(tokens) /\ HasFlag(tokens[j + 1].flags, TF_SENT_END_WEAK)
    THEN weak_run(tokens, j + 1, j)
    ELSE end

\* the lookahead of the ellipsis rule: the first j >= k + 1 that is neither
\* weak nor punctuation, or n
RECURSIVE skip_punct(_, _)
skip_punct(tokens, j) ==
    IF j < Len(tokens) /\ (\/ HasFlag(tokens[j + 1].flags, TF_SENT_END_WEAK)
                           \/ HasFlag(tokens[j + 1].flags, TF_PUNCT))
    THEN skip_punct(tokens, j + 1)
    ELSE j

is_strong(f) == HasFlag(f.tokens[f.k + 1].flags, TF_SENT_END_STRONG)

ellipsis_ends(f) ==
    /\ HasFlag(f.tokens[f.k + 1].flags, TF_SENT_END_WEAK)
    /\ f.tokens[f.k + 1].text \in ELLIPSIS_TEXTS
    /\ LET j == skip_punct(f.tokens, f.k + 1)
       IN  IF j >= f.n THEN TRUE ELSE HasFlag(f.tokens[j + 1].flags, TF_CAP)

\* mutant: the sentence is closed, but the scan goes on from the token after k
close_at_Rescan(f, end) ==
    [f EXCEPT !.spans = Append(@, <<f.s, end + 1>>), !.s = end + 1, !.k = f.k + 1]

\* spans.append((s, end + 1)); s = end + 1; k = s
close_at(f, end) ==
    [f EXCEPT !.spans = Append(@, <<f.s, end + 1>>), !.s = end + 1, !.k = end + 1]

seg_strong(f) == close_at(f, weak_run(f.tokens, f.k + 1, f.k))
\* mutant: the ellipsis absorbs the weak closers after it, as a strong terminator does
seg_ellipsis_Absorbs(f) == close_at(f, weak_run(f.tokens, f.k + 1, f.k))

seg_ellipsis(f) == close_at(f, f.k)
seg_advance(f) == [f EXCEPT !.k = @ + 1]

\* mutant: the trailing span is appended without the test s < n
seg_return_Always(f) ==
    [f EXCEPT !.spans = Append(@, <<f.s, f.n>>), !.pc = "done"]

\* after the loop: the trailing span, and the return
seg_return(f) ==
    [f EXCEPT !.spans = IF f.s < f.n THEN Append(@, <<f.s, f.n>>) ELSE @, !.pc = "done"]

seg_step(f) ==
    IF f.k >= f.n THEN seg_return(f)
    ELSE IF is_strong(f) THEN seg_strong(f)
    ELSE IF ellipsis_ends(f) THEN seg_ellipsis(f)
    ELSE seg_advance(f)

RECURSIVE seg_run(_)
seg_run(f) == IF f.pc = "done" THEN f ELSE seg_run(seg_step(f))

segment_tokens(tokens) == seg_run(segment_enter(tokens)).spans

-----------------------------------------------------------------------------
(* The segmenter as a state machine *)

MaxTokens == 3

\* every combination of the four flags the segmenter reads, and one with TF_NUM
FlagSamples ==
    { c + p + st + w : c \in {0, TF_CAP}, p \in {0, TF_PUNCT},
                       st \in {0, TF_SENT_END_STRONG}, w \in {0, TF_SENT_END_WEAK} }
    \cup {TF_NUM + TF_CAP}
\* a word with any of these flags, an ellipsis with any of them that has TF_PUNCT
TokenKinds ==
    ({<<"a">>} \X FlagSamples)
    \cup ({<<".", ".", ".">>} \X {f \in FlagSamples : HasFlag(f, TF_PUNCT)})

\* the token list with the given texts and flags, laid out one text after another
TokenList(kinds) ==
    [j \in 1..Len(kinds) |->
        Token(j - 1, kinds[j][1], 4 * (j - 1), 4 * (j - 1) + Len(kinds[j][1]), kinds[j][2])]

\* the samples of sentences.py, as texts
SentenceSamples ==
    { <<"A", "r", "e", " ", "y", "o", "u", " ", "o", "k", "a", "y", "?">>,
      <<"O", "k", "a", "y", ".", ".", ".", " ", "I", " ", "g", "u", "e", "s", "s">>,
      <<"W", "a", "i", "t", "U+2026", " ", "U+201C", "R", "e", "a", "l", "l", "y", "?",
        "U+201D", " ", "Y", "e", "s", ".">>,
      <<"H", "e", " ", "s", "a", "i", "d", ",", " ", "U+201C", "D", "o", "n", "U+2019", "t",
        " ", "m", "o", "v", "e", ".", "U+201D">> }

SegInputs ==
    { TokenList(ks) : ks \in SeqsUpTo(TokenKinds, MaxTokens) }
    \cup { tokenize(t) : t \in SentenceSamples }

InitSeg ==
    /\ WorkersIdle
    /\ HeapIdle
    /\ MorphIdle
    /\ AnnIdle
    /\ VarintIdle
    /\ \E tokens \in SegInputs : sg = segment_enter(tokens)
    /\ iters = 0
    /\ CodecAt(NoGraph)
    /\ BuilderIdle
    /\ VocabIdle
    /\ TokIdle

SegStrong ==
    /\ sg.pc = "loop" /\ sg.k < sg.n
    /\ is_strong(sg)
    /\ sg' = seg_strong(sg)
    /\ iters' = iters + 1
    /\ UNCHANGED <<codecVars, builderVars, vocabVars, tokVars, varintVars, annVars, morphVars, heapVars, workerVars>>

SegEllipsis ==
    /\ sg.pc = "loop" /\ sg.k < sg.n
    /\ ~is_strong(sg) /\ ellipsis_ends(sg)
    /\ sg' = seg_ellipsis(sg)
    /\ iters' = iters + 1
    /\ UNCHANGED <<codecVars, builderVars, vocabVars, tokVars, varintVars, annVars, morphVars, heapVars, workerVars>>

SegAdvance ==
    /\ sg.pc = "loop" /\ sg.k < sg.n
    /\ ~is_strong(sg) /\ ~ellipsis_ends(sg)
    /\ sg' = seg_advance(sg)
    /\ iters' = iters + 1
    /\ UNCHANGED <<codecVars, builderVars, vocabVars, tokVars, varintVars, annVars, morphVars, heapVars, workerVars>>

SegReturn ==
    /\ sg.pc = "loop" /\ sg.k >= sg.n
    /\ sg' = seg_return(sg)
    /\ UNCHANGED iters
    /\ UNCHANGED <<codecVars, builderVars, vocabVars, tokVars, varintVars, annVars, morphVars, heapVars, workerVars>>

NextSeg == SegStrong \/ SegEllipsis \/ SegAdvance \/ SegReturn

SpecSeg == InitSeg /\ [][NextSeg]_vars

\* spans is an ordered list of non-empty half-open spans that partitions [0, n)
Partitions(spans, n) ==
    IF n = 0 THEN spans = <<>>
    ELSE /\ Len(spans) >= 1
         /\ spans[1][1] = 0
         /\ spans[Len(spans)][2] = n
         /\ \A j \in 1..Len(spans) : spans[j][1] < spans[j][2]
         /\ \A j \in 1..(Len(spans) - 1) : spans[j + 1][1] = spans[j][2]

(* C3: for every token sequence of length n, whatever its flags, the list  *)
(* segment_tokens returns is an ordered list of non-empty half-open spans  *)
(* that exactly partitions [0, n): the first starts at 0, each starts      *)
(* where the previous one ends, the last ends at n; for n = 0 it is empty. *)
C3_Partition ==
    sg.pc = "done" =>
        /\ Partitions(sg.spans, sg.n)
        /\ sg.spans = segment_tokens(sg.tokens)

\* segment_tokens returned two sentences for three tokens or more, the second
\* closed by a strong terminator whose boundary was carried over a weak closer
\* at the end of the input (no trailing span is added)
C3_Witness ==
    /\ sg.pc = "done" /\ sg.n >= 3 /\ Len(sg.spans) = 2
    /\ sg.spans[2][2] - sg.spans[2][1] >= 2
    /\ HasFlag(sg.tokens[sg.n].flags, TF_SENT_END_WEAK)
    /\ HasFlag(sg.tokens[sg.n - 1].flags, TF_SENT_END_STRONG)

-----------------------------------------------------------------------------
(* The tokenizer as a state machine: tokenize is called on the text under  *)
(* test, on other texts, and on the text under test again.                 *)

MaxText == 4

TextAlphabet == {"a", "B", "1", ".", "'", ")", " ", "$"}

\* texts with a URL, an e-mail address, handles, a non-ASCII capital, both
\* ellipses and closers after a terminator
TextSamples ==
    SentenceSamples \cup
    { <<"h", "t", "t", "p", ":", "/", "/", "a", ".", "b", " ", "1">>,
      <<"w", "w", "w", ".", "a", "1", " ", "b">>,
      <<"a", ".", "b", "@", "c", "-", "1", ".", "b", ".", "c", "c", ".", "t", " ", "x">>,
      <<"@", "a", "b", " ", "#", "1", " ", "@">>,
      <<"U+00C9", "a", " ", "B", "2">>,
      <<"a", " ", "$", " ", "b">>,
      <<"B", "o", "b", "@", "x", ".", "c", "o", "m", " ", "B">>,
      <<"a", " ", "U+00C9">>,
      <<"a", "?", ")", "'", "U+00BB", " ", "U+2026", "B">> }

OtherTexts == { <<"B", "1", " ", "a", ".">>, <<"$">>, <<>> }

TokTexts == SeqsUpTo(TextAlphabet, MaxText) \cup TextSamples

Result(tokens) == [some |-> TRUE, tokens |-> tokens]

InitTok ==
    /\ WorkersIdle
    /\ HeapIdle
    /\ MorphIdle
    /\ AnnIdle
    /\ VarintIdle
    /\ txt \in TokTexts
    /\ tk = NoFrame
    /\ out1 = NoResult
    /\ out2 = NoResult
    /\ mid = FALSE
    /\ CodecAt(NoGraph)
    /\ BuilderIdle
    /\ VocabIdle
    /\ SegIdle

\* the first call tokenize(txt)
TokenizeFirst ==
    /\ ~out1.some
    /\ tk' = run_tokenize(NewFrame(txt))
    /\ out1' = Result(tk'.tokens)
    /\ UNCHANGED <<txt, out2, mid>>
    /\ UNCHANGED <<codecVars, builderVars, vocabVars, segVars, varintVars, annVars, morphVars, heapVars, workerVars>>

\* a call of tokenize on another text, before, between or after the two
TokenizeOther ==
    /\ \E other \in OtherTexts :
          /\ other # txt
          /\ tk' = run_tokenize(NewFrame(other))
    /\ mid' = (mid \/ (out1.some /\ ~out2.some))
    /\ UNCHANGED <<txt, out1, out2>>
    /\ UNCHANGED <<codecVars, builderVars, vocabVars, segVars, varintVars, annVars, morphVars, heapVars, workerVars>>

\* a later call tokenize(txt)
TokenizeAgain ==
    /\ out1.some
    /\ tk' = run_tokenize(NewFrame(txt))
    /\ out2' = Result(tk'.tokens)
    /\ UNCHANGED <<txt, out1, mid>>
    /\ UNCHANGED <<codecVars, builderVars, vocabVars, segVars, varintVars, annVars, morphVars, heapVars, workerVars>>

NextTok == TokenizeFirst \/ TokenizeOther \/ TokenizeAgain

SpecTok == InitTok /\ [][NextTok]_vars

\* the tokens whose [start, end) holds offset p
Covering(tokens, p) == { k \in 1..Len(tokens) : tokens[k].start <= p /\ p < tokens[k].end }

(* C4: tokenize is lossless with respect to content: every non-whitespace   *)
(* character of the text lies inside the [start, end) range of exactly one *)
(* emitted token, no token holds only whitespace, and a character that     *)
(* matches no alternative of the grammar is in a token too, wherever in    *)
(* the text it occurs.                                                     *)
C4_Lossless ==
    out1.some =>
        /\ \A p \in 0..(Len(txt) - 1) :
              At(txt, p) \notin Whitespace => Cardinality(Covering(out1.tokens, p)) = 1
        /\ \A k \in 1..Len(out1.tokens) :
              \E j \in 1..Len(out1.tokens[k].text) : out1.tokens[k].text[j] \notin Whitespace

-----------------------------------------------------------------------------
(* The varints as a state machine: a value is encoded and the bytes are    *)
(* decoded where they lie in a buffer, or a buffer that no encoder wrote   *)
(* is decoded.                                                             *)

MaxRun == 11

\* values on both sides of 2^7k for every k up to 10, 2^63 - 1 and 2^63 among them
VarintValues ==
    { PyInt(n) : n \in {0, 1, 127, 128, 300, 16383, 16384} }
    \cup { PyOnes(k) : k \in 1..10 } \cup { PyPow(k) : k \in 1..10 }
    \cup { [neg |-> FALSE, mag |-> [j \in 1..k |-> IF j % 2 = 1 THEN 0 ELSE 85]] :
             k \in {2, 4, 6, 8, 10} }
    \cup { PyNeg }

\* a run of k continuation bytes, ended by a last byte or two, or by nothing
VarintRuns ==
    { [j \in 1..k |-> c] \o tail :
        k \in 0..MaxRun, c \in {128, 129, 255}, tail \in {<<>>, <<0>>, <<1>>, <<127>>, <<1, 200>>} }

VarintPads == {<<>>, <<255>>, <<0, 128>>}

InitVarint ==
    /\ WorkersIdle
    /\ HeapIdle
    /\ MorphIdle
    /\ AnnIdle
    /\ vr = [op |-> "none", value |-> PyInt(0), enc |-> Bytes(<<>>), buf |-> <<>>,
             offset |-> 0, res |-> Value(PyInt(0), 0)]
    /\ CodecAt(NoGraph)
    /\ BuilderIdle
    /\ VocabIdle
    /\ SegIdle
    /\ TokIdle

\* enc = _uvarint_encode(value)
VarintEncode ==
    /\ \E value \in VarintValues :
          vr' = [op |-> "encode", value |-> value, enc |-> uvarint_encode(value),
                 buf |-> <<>>, offset |-> 0, res |-> Value(PyInt(0), 0)]
    /\ UNCHANGED <<codecVars, builderVars, vocabVars, segVars, tokVars, annVars, morphVars, heapVars, workerVars>>

\* _uvarint_decode(buf, offset) where buf holds enc at offset
VarintDecodeEncoded ==
    /\ vr.op = "encode" /\ vr.enc.ok
    /\ \E before \in VarintPads, after \in VarintPads :
          LET buf == before \o vr.enc.bytes \o after
          IN  vr' = [vr EXCEPT !.op = "decode encoded", !.buf = buf, !.offset = Len(before),
                               !.res = uvarint_decode(buf, Len(before))]
    /\ UNCHANGED <<codecVars, builderVars, vocabVars, segVars, tokVars, annVars, morphVars, heapVars, workerVars>>

\* _uvarint_decode(buf, offset) on any buffer
VarintDecodeRaw ==
    /\ vr.op # "decode raw"
    /\ \E before \in VarintPads, run \in VarintRuns :
          LET buf == before \o run
          IN  vr' = [op |-> "decode raw", value |-> PyInt(0), enc |-> Bytes(<<>>),
                     buf |-> buf, offset |-> Len(before),
                     res |-> uvarint_decode(buf, Len(before))]
    /\ UNCHANGED <<codecVars, builderVars, vocabVars, segVars, tokVars, annVars, morphVars, heapVars, workerVars>>

NextVarint == VarintEncode \/ VarintDecodeEncoded \/ VarintDecodeRaw

SpecVarint == InitVarint /\ [][NextVarint]_vars

\* the number of continuation bytes buf holds from offset p on, in a row
ContinuationRun(buf, p) ==
    CHOOSE k \in 0..(Len(buf) - p) :
        /\ \A j \in 1..k : buf[p + j] >= 128
        /\ k = Len(buf) - p \/ buf[p + k + 1] < 128

\* the value is below 2^63
Below2To63(v) == ~v.neg /\ Len(v.mag) <= 9

(* C11: _uvarint_decode rejects every varint whose accumulated shift would *)
(* exceed 63: it fails with "value too large" on the continuation byte     *)
(* that would push the shift past 63 (the tenth), so it never reads more   *)
(* than ten bytes for one integer; a shorter run that a last byte ends is  *)
(* accepted with the offset just after that byte.  Every varint that       *)
(* _uvarint_encode produces for 0 <= v < 2^63 is accepted and decodes to v *)
(* with the offset advanced by exactly the encoded length.                 *)
C11_VarintShiftLimit ==
    /\ vr.op \in {"decode raw", "decode encoded"} =>
          LET k == ContinuationRun(vr.buf, vr.offset)
          IN  /\ vr.res.i - vr.offset <= 10
              /\ k >= 10 => ~vr.res.ok /\ vr.res.err = ErrTooLarge /\ vr.res.i = vr.offset + 10
              /\ (k < 10 /\ vr.offset + k < Len(vr.buf)) =>
                    vr.res.ok /\ vr.res.i = vr.offset + k + 1
              /\ (k < 10 /\ vr.offset + k = Len(vr.buf)) =>
                    ~vr.res.ok /\ vr.res.err = ErrTruncated
    /\ (vr.op = "decode encoded" /\ Below2To63(vr.value)) =>
          /\ vr.res.ok
          /\ vr.res.value = vr.value
          /\ vr.res.i = vr.offset + Len(vr.enc.bytes)

\* a run of eleven continuation bytes that starts at offset 2 was refused at
\* its tenth byte
C11_Witness ==
    /\ vr.op = "decode raw" /\ vr.offset = 2
    /\ ContinuationRun(vr.buf, vr.offset) = 11
    /\ ~vr.res.ok /\ vr.res.err = ErrTooLarge /\ vr.res.i = 12

-----------------------------------------------------------------------------
(* Properties of the builder over SpecBuilder *)

(* C12: after any sequence of add_node, add_edge, set_thumbnail and        *)
(* finalize calls on one GraphBuilder, the k-th add_node call (from 0)     *)
(* returned k and the j-th add_edge call returned j (an add_edge uses up   *)
(* no node id), and in every Graph finalize returned the node at list      *)
(* index i has node_id = i.                                                *)
C12_BuilderIds ==
    /\ gcall.op = "add_node" => gcall.ok /\ gcall.ret = PyInt(calls.nodes - 1)
    /\ gcall.op = "add_edge" => gcall.ok /\ gcall.ret = PyInt(calls.edges - 1)
    /\ calls.finalized =>
          \A i \in 1..Len(fin.nodes) : fin.nodes[i].node_id = PyInt(i - 1)

\* the second add_node call, made after an add_edge call and a finalize call,
\* returned 1
C12_Witness ==
    /\ gcall.op = "add_node" /\ calls.nodes = 2 /\ calls.edges = 1 /\ calls.finalized
    /\ gcall.ret = PyInt(1)
    /\ Len(gb.nodes) = 2 /\ Len(fin.nodes) < 2

(* C13: every Graph finalize returned has num_nodes equal to the length    *)
(* of its node list and num_edges equal to the length of its edge list,    *)
(* and it is a snapshot: a later add_node, add_edge or set_thumbnail call  *)
(* on the builder changes nothing of it (node list, edge list, counts,     *)
(* thumbnail).                                                             *)
C13_Snapshot ==
    /\ [](calls.finalized =>
            /\ fin.num_nodes = PyInt(Len(fin.nodes))
            /\ fin.num_edges = PyInt(Len(fin.edges)))
    /\ [][(calls.finalized /\ gcall'.op \in {"add_node", "add_edge", "set_thumbnail"}) =>
            /\ fin'.nodes = fin.nodes /\ fin'.edges = fin.edges
            /\ fin'.num_nodes = fin.num_nodes /\ fin'.num_edges = fin.num_edges
            /\ fin'.g_features = fin.g_features]_vars

\* the Graph returned with one node and no thumbnail is still that, after a
\* node, an edge and a thumbnail were added to the builder
C13_Witness ==
    /\ calls.finalized /\ gcall.op # "finalize"
    /\ Len(fin.nodes) = 1 /\ Len(fin.edges) = 0 /\ fin.g_features = None
    /\ Len(gb.nodes) = 2 /\ Len(gb.edges) = 1 /\ gb.features = Some(Thumb(128))

(* C14: every Graph finalize returned has a thumbnail that is absent or of *)
(* length exactly 0, 64 or 128, for every way of constructing the builder  *)
(* (g_features passed to the constructor included) and every sequence of   *)
(* builder operations.                                                     *)
C14_ThumbnailInvariant ==
    calls.finalized =>
        (~fin.g_features.some \/ Len(fin.g_features.bytes) \in {0, 64, 128})

(* C16: every Node and every Edge of a Graph finalize returned has         *)
(* confidence in 0..255, whatever integer was passed as confidence to      *)
(* add_node or add_edge.                                                   *)
C16_ConfidenceRange ==
    calls.finalized =>
        /\ \A i \in 1..Len(fin.nodes) : fin.nodes[i].confidence \in 0..255
        /\ \A j \in 1..Len(fin.edges) : fin.edges[j].confidence \in 0..255

-----------------------------------------------------------------------------
(* An edge from add_edge to decode_pgraph: nodes and one edge are added to *)
(* a builder, the builder is finalized, and the Graph is encoded and the   *)
(* bytes are decoded.                                                      *)

\* endpoints: 1 (below, at or beyond the node count, as nodes are added), 2^70 - 1, 2^70
EndpointSamples == {PyInt(1), PyOnes(10), PyPow(10)}

InitEdge ==
    /\ WorkersIdle
    /\ HeapIdle
    /\ MorphIdle
    /\ AnnIdle
    /\ gb = GraphBuilder(SelfCheckHeader[1], SelfCheckHeader[2], SelfCheckHeader[3],
                         SelfCheckHeader[4], SelfCheckHeader[5], None)
    /\ gcall = NoCall
    /\ fin = NoGraph
    /\ calls = NoCalls
    /\ finShares = {}
    /\ CodecAt(NoGraph)
    /\ VocabIdle
    /\ SegIdle
    /\ TokIdle
    /\ VarintIdle

\* add_edge(src_id, dst_id, EdgeType.NEXT) with the defaults of the other arguments
AddEdgeBetween ==
    /\ Len(gb.edges) < MaxEdges
    /\ \E src_id \in EndpointSamples, dst_id \in EndpointSamples :
          LET r == add_edge(gb, src_id, dst_id, EdgeType_NEXT, 255, PyInt(0), EF_DIRECTED,
                            255, PyInt(0))
          IN  /\ gb' = r.gb /\ gcall' = Call("add_edge", r, None)
              /\ calls' = [calls EXCEPT !.edges = @ + 1,
                                        !.endpoints = Append(@, <<src_id, dst_id>>)]
    /\ fin' = Observed(fin, finShares, gb')
    /\ UNCHANGED finShares
    /\ UNCHANGED <<codecVars, vocabVars, segVars, tokVars, varintVars, annVars, morphVars, heapVars, workerVars>>

\* the Graph finalize returned is the one handed to encode_pgraph
HandOver ==
    /\ calls.finalized /\ cg = NoGraph /\ ~Called(blob)
    /\ cg' = fin
    /\ UNCHANGED <<blob, decBuf, dec, reenc>>
    /\ UNCHANGED <<builderVars, vocabVars, segVars, tokVars, varintVars, annVars, morphVars, heapVars, workerVars>>

EncodeHanded == cg # NoGraph /\ Encode

NextEdge == AddNode \/ AddEdgeBetween \/ Finalize \/ HandOver \/ EncodeHanded \/ DecodeBlob

SpecEdge == InitEdge /\ [][NextEdge]_vars

\* the endpoints given to add_edge are the endpoints of the edges of these lists
EndpointsKept(edges) ==
    /\ Len(edges) <= Len(calls.endpoints)
    /\ \A j \in 1..Len(edges) :
          /\ edges[j].src_id = calls.endpoints[j][1]
          /\ edges[j].dst_id = calls.endpoints[j][2]

\* add_edge, finalize and encode_pgraph take the endpoints as they are
EndpointsAccepted ==
    /\ gcall.op = "add_edge" => gcall.ok /\ Len(gb.edges) = calls.edges
    /\ EndpointsKept(gb.edges)
    /\ calls.finalized => EndpointsKept(fin.edges)
    /\ (cg # NoGraph /\ Called(blob)) => blob.ok

(* C15: edge endpoints are never validated: add_edge succeeds and stores   *)
(* src_id and dst_id unchanged for any non-negative endpoints, ids at or   *)
(* beyond the node count included; finalize and encode_pgraph accept such  *)
(* a graph; decode_pgraph accepts it and returns the endpoints exactly     *)
(* when they are below 2^70.                                               *)
C15_EndpointsUnchecked ==
    /\ EndpointsAccepted
    /\ (cg # NoGraph /\ DecodedBlob /\ \A v \in VarintFields(cg) : Len(v.mag) <= 10) =>
          /\ dec.ok
          /\ EndpointsKept(dec.graph.edges) /\ Len(dec.graph.edges) = Len(cg.edges)

\* C15 as the specification states it: decode_pgraph accepts the graph and
\* keeps the endpoints for any non-negative endpoints.
C15_EndpointsAnyValue ==
    /\ EndpointsAccepted
    /\ (cg # NoGraph /\ DecodedBlob) =>
          /\ dec.ok
          /\ EndpointsKept(dec.graph.edges) /\ Len(dec.graph.edges) = Len(cg.edges)

\* an edge from 2^70 - 1 to node 1 of a graph with one node came back from
\* decode_pgraph with these endpoints
C15_Witness ==
    /\ DecodedBlob /\ dec.ok
    /\ Len(cg.nodes) = 1 /\ Len(cg.edges) = 1
    /\ calls.endpoints[1] = <<PyOnes(10), PyInt(1)>>
    /\ dec.graph.edges[1].src_id = PyOnes(10) /\ dec.graph.edges[1].dst_id = PyInt(1)

-----------------------------------------------------------------------------
(* annotate_graph (morph.py 250-264).  g.nodes is a sequence of Node       *)
(* records that the call rewrites in place; of tokens only the length is   *)
(* read; a MorphInfo is [lemma, lemma_id, pos, bits, is_stop].             *)

MaxAnnotate == 3

MorphInfo(lemma, lemma_id, pos, bits, is_stop) ==
    [lemma |-> lemma, lemma_id |-> lemma_id, pos |-> pos, bits |-> bits, is_stop |-> is_stop]

\* mutant: n = len(morphs)
annotate_count_MorphsOnly(nodes, tokens, morphs) == Len(morphs)

\* n = min(len(g.nodes), len(tokens), len(morphs))
annotate_count(nodes, tokens, morphs) ==
    CHOOSE n \in {Len(nodes), Len(tokens), Len(morphs)} :
        n <= Len(nodes) /\ n <= Len(tokens) /\ n <= Len(morphs)

\* mutant: the IS_STOP bit is written either way, set or cleared
annotate_node_WritesStop(node, mi) ==
    [node EXCEPT !.sub_type = mi.pos,
                 !.label_id = PyInt(mi.lemma_id),
                 !.flags = IF mi.is_stop THEN OrFlag(@, NF_IS_STOP)
                           ELSE IF HasFlag(@, NF_IS_STOP) THEN @ - NF_IS_STOP ELSE @]

\* the body of the loop for one i
annotate_node(node, mi) ==
    [node EXCEPT !.sub_type = mi.pos,
                 !.label_id = PyInt(mi.lemma_id),
                 !.flags = IF mi.is_stop THEN OrFlag(@, NF_IS_STOP) ELSE @]

\* for i in range(n): g.nodes[i] and morphs[i] raise IndexError past the end
RECURSIVE annotate_loop(_, _, _, _)
annotate_loop(nodes, morphs, i, n) ==
    IF i >= n THEN [ok |-> TRUE, err |-> "", nodes |-> nodes]
    ELSE IF i >= Len(nodes) \/ i >= Len(morphs)
         THEN [ok |-> FALSE, err |-> ErrIndex, nodes |-> nodes]
    ELSE annotate_loop([nodes EXCEPT ![i + 1] = annotate_node(@, morphs[i + 1])],
                       morphs, i + 1, n)

annotate_graph(nodes, tokens, morphs) ==
    annotate_loop(nodes, morphs, 0, annotate_count(nodes, tokens, morphs))

\* nodes as tokens_to_graph adds them, one already flagged IS_STOP, one with
\* all sixteen flag bits
AnnotateNodes ==
    { Node(PyInt(0), NodeType_TOKEN, 0, PyInt(0), <<PyInt(0), PyInt(3)>>,
           NF_IS_CAPITALIZED, 255, PyInt(0)),
      Node(PyInt(0), NodeType_TOKEN, 7, PyInt(0), <<PyInt(4), PyInt(7)>>,
           NF_IS_STOP + NF_IS_PUNCT, 255, PyInt(9)),
      Node(PyInt(0), NodeType_KG_CONCEPT, 255, PyInt(5), <<PyInt(0), PyInt(0)>>,
           65535, 0, PyInt(300)) }

AnnotateMorphs ==
    { MorphInfo("be", 1, 4, 68, TRUE),
      MorphInfo("okay", 3, 1, 1, FALSE),
      MorphInfo("?", 0, 13, 13, FALSE) }

\* the tokens of the text of tester.py, and the first few of them
AnnotateTokens ==
    LET toks == tokenize(<<"A", "r", "e", " ", "y", "o", "u", " ", "o", "k", "a", "y", "?">>)
    IN  { SubSeq(toks, 1, k) : k \in 0..Len(toks) }

\* node_id = list index, as add_node numbers them
Renumbered(nodes) == [j \in 1..Len(nodes) |-> [nodes[j] EXCEPT !.node_id = PyInt(j - 1)]]

InitAnnotate ==
    /\ WorkersIdle
    /\ HeapIdle
    /\ MorphIdle
    /\ \E nodes \in SeqsUpTo(AnnotateNodes, MaxAnnotate),
          tokens \in AnnotateTokens,
          morphs \in SeqsUpTo(AnnotateMorphs, MaxAnnotate) :
          an = [pc |-> "ready", before |-> Renumbered(nodes), tokens |-> tokens,
                morphs |-> morphs, nodes |-> Renumbered(nodes), ok |-> TRUE, err |-> ""]
    /\ CodecAt(NoGraph)
    /\ BuilderIdle
    /\ VocabIdle
    /\ SegIdle
    /\ TokIdle
    /\ VarintIdle

\* annotate_graph(g, tokens, morphs)
Annotate ==
    /\ an.pc = "ready"
    /\ LET r == annotate_graph(an.nodes, an.tokens, an.morphs)
       IN  an' = [an EXCEPT !.pc = "done", !.nodes = r.nodes, !.ok = r.ok, !.err = r.err]
    /\ UNCHANGED <<codecVars, builderVars, vocabVars, segVars, tokVars, varintVars, morphVars, heapVars, workerVars>>

NextAnnotate == Annotate

SpecAnnotate == InitAnnotate /\ [][NextAnnotate]_vars

\* min(len(g.nodes), len(tokens), len(morphs))
Least(a, b, c) == IF a <= b /\ a <= c THEN a ELSE IF b <= c THEN b ELSE c

(* C17: annotate_graph(g, tokens, morphs) annotates exactly the first      *)
(* m = min(len(g.nodes), len(tokens), len(morphs)) nodes: for i < m node i *)
(* gets sub_type = morphs[i].pos and label_id = morphs[i].lemma_id, and    *)
(* its IS_STOP bit set when morphs[i].is_stop (its other flag bits and     *)
(* fields stay); nodes at index >= m are untouched; a length mismatch      *)
(* raises no error.                                                        *)
C17_AnnotateFirstM ==
    an.pc = "done" =>
        LET m == Least(Len(an.before), Len(an.tokens), Len(an.morphs))
        IN  /\ an.ok
            /\ Len(an.nodes) = Len(an.before)
            /\ \A j \in 1..Len(an.nodes) :
                  IF j <= m
                  THEN /\ an.nodes[j].sub_type = an.morphs[j].pos
                       /\ an.nodes[j].label_id = PyInt(an.morphs[j].lemma_id)
                       /\ an.morphs[j].is_stop => HasFlag(an.nodes[j].flags, NF_IS_STOP)
                       /\ an.nodes[j].flags \in {an.before[j].flags,
                                                  an.before[j].flags + NF_IS_STOP}
                       /\ ~an.morphs[j].is_stop => an.nodes[j].flags = an.before[j].flags
                       /\ [an.nodes[j] EXCEPT !.sub_type = 0, !.label_id = PyInt(0), !.flags = 0]
                            = [an.before[j] EXCEPT !.sub_type = 0, !.label_id = PyInt(0), !.flags = 0]
                  ELSE an.nodes[j] = an.before[j]

\* three nodes, two tokens and three morphs: the first two nodes were
\* annotated, one of them as a stop word, and the third is as it was
C17_Witness ==
    /\ an.pc = "done" /\ an.ok
    /\ Len(an.before) = 3 /\ Len(an.tokens) = 2 /\ Len(an.morphs) = 3
    /\ an.morphs[1].is_stop /\ ~HasFlag(an.before[1].flags, NF_IS_STOP)
    /\ HasFlag(an.nodes[1].flags, NF_IS_STOP)
    /\ an.nodes[2] # an.before[2]
    /\ an.nodes[3] = an.before[3] /\ an.nodes[3].sub_type # an.morphs[3].pos

-----------------------------------------------------------------------------
(* The two rules of the segmenter, over SpecSeg.  Token index j counts     *)
(* from 0; IsWeak and the like read the flags of token j of the frame sg.  *)

IsStrong(j) == HasFlag(sg.tokens[j + 1].flags, TF_SENT_END_STRONG)
IsWeak(j) == HasFlag(sg.tokens[j + 1].flags, TF_SENT_END_WEAK)
IsPunct(j) == HasFlag(sg.tokens[j + 1].flags, TF_PUNCT)
IsCap(j) == HasFlag(sg.tokens[j + 1].flags, TF_CAP)
IsEllipsis(j) == sg.tokens[j + 1].text \in {<<"U+2026">>, <<".", ".", ".">>}

\* the loop is at token k
AtToken(k) == sg.pc = "loop" /\ sg.k = k /\ k < sg.n

\* the tokens after k that carry neither the weak-end nor the punctuation flag
Substantive(k) == { j \in (k + 1)..(sg.n - 1) : ~IsWeak(j) /\ ~IsPunct(j) }

\* the first index after k that is not weak-end, or n
WeakRunEnd(k) ==
    CHOOSE e \in (k + 1)..sg.n :
        /\ \A j \in (k + 1)..(e - 1) : IsWeak(j)
        /\ e = sg.n \/ ~IsWeak(e)

\* the step closes the current sentence at e and goes on from there
ClosesAt(e) ==
    /\ sg'.spans = Append(sg.spans, <<sg.s, e>>)
    /\ sg'.s = e /\ sg'.k = e /\ sg'.pc = "loop"

\* the step closes nothing and goes on with the next token
GoesOn ==
    /\ sg'.spans = sg.spans
    /\ sg'.s = sg.s /\ sg'.k = sg.k + 1 /\ sg'.pc = "loop"

C19_StrongRule ==
    /\ [][\A k \in 0..(sg.n - 1) :
            (AtToken(k) /\ IsStrong(k)) => ClosesAt(WeakRunEnd(k))]_vars
    /\ [](sg.pc = "done" =>
            \A k \in 0..(sg.n - 1) :
                (IsStrong(k) /\ ~IsWeak(k)) =>
                    \E i \in 1..Len(sg.spans) :
                        /\ sg.spans[i][1] <= k /\ k < sg.spans[i][2]
                        /\ sg.spans[i][2] = WeakRunEnd(k))

\* a strong terminator at index 0 absorbed the weak closer after it, and the
\* next sentence began at the word that follows
C19_Witness ==
    /\ sg.pc = "done" /\ sg.n = 3
    /\ IsStrong(0) /\ ~IsWeak(0)
    /\ IsWeak(1) /\ ~IsStrong(1)
    /\ ~IsWeak(2) /\ ~IsStrong(2)
    /\ sg.spans = << <<0, 2>>, <<2, 3>> >>

-----------------------------------------------------------------------------
(* The capitalized flag, over SpecTok.  tk holds the tokens and the kinds  *)
(* of the latest call; the fallback token is filed under the kind WORD.    *)

\* the text begins with an uppercase letter (and so contains a letter)
Capitalized(text) == Len(text) > 0 /\ IsUpper(text[1]) /\ \E j \in 1..Len(text) : IsAlpha(text[j])

(* C20, as amended: for every word token and for the fallback token        *)
(* emitted by tokenize, the capitalized flag is set if and only if the     *)
(* token's first character is an uppercase letter and the token contains   *)
(* at least one letter; a URL, e-mail, handle, punctuation or ellipsis     *)
(* token never carries the flag, whatever its first character.             *)
C20_CapitalizedWords ==
    tk # NoFrame =>
        \A k \in 1..Len(tk.tokens) :
            HasFlag(tk.tokens[k].flags, TF_CAP) <=>
                (tk.kinds[k] = "WORD" /\ Capitalized(tk.tokens[k].text))

(* C20, as stated: for every token emitted by tokenize, of every kind, the *)
(* capitalized flag is set if and only if the token's first character is   *)
(* an uppercase letter and the token contains at least one letter.         *)
C20_CapitalizedEveryKind ==
    tk # NoFrame =>
        \A k \in 1..Len(tk.tokens) :
            HasFlag(tk.tokens[k].flags, TF_CAP) <=> Capitalized(tk.tokens[k].text)

\* tokenize("Bob@x.com B"): the e-mail token begins with an uppercase letter
\* and has no capitalized flag, the word token after it has the flag
C20_Witness ==
    /\ tk # NoFrame
    /\ Len(tk.tokens) = 2
    /\ tk.kinds = <<"EMAIL", "WORD">>
    /\ Capitalized(tk.tokens[1].text) /\ ~HasFlag(tk.tokens[1].flags, TF_CAP)
    /\ Capitalized(tk.tokens[2].text) /\ HasFlag(tk.tokens[2].flags, TF_CAP)

-----------------------------------------------------------------------------
(* The sentence-end flags after the post-pass, over SpecTok.               *)

\* token k of the latest call (k counts from 1) has the flag
TokHas(k, bit) == HasFlag(tk.tokens[k].flags, bit)

\* token k lies in the run of closer-set tokens right after a strong-end token
InCloserRun(k) ==
    \E s \in 1..(k - 1) :
        /\ TokHas(s, TF_SENT_END_STRONG)
        /\ \A j \in (s + 1)..k : tk.tokens[j].text \in {<<"\"">>, <<"U+201D">>, <<"U+2019">>, <<"'">>,
                                                       <<")">>, <<"]">>, <<"}">>, <<"U+00BB">>}

(* C21: after tokenize's second pass, a token carries the strong-end flag  *)
(* if and only if it is a punctuation token whose text is exactly '.',     *)
(* '?' or '!'; a token carries the weak-end flag if and only if it is an   *)
(* ellipsis token or it belongs to the maximal run of closer-set tokens    *)
(* that immediately follows a strong-end token; an ellipsis token never    *)
(* carries the strong-end flag and no token carries both flags.            *)
C21_SentenceEndFlags ==
    tk # NoFrame =>
        \A k \in 1..Len(tk.tokens) :
            /\ TokHas(k, TF_SENT_END_STRONG) <=>
                  (tk.kinds[k] = "PUNCT" /\ tk.tokens[k].text \in {<<".">>, <<"?">>, <<"!">>})
            /\ TokHas(k, TF_SENT_END_WEAK) <=> (tk.kinds[k] = "ELLIPSIS" \/ InCloserRun(k))
            /\ tk.kinds[k] = "ELLIPSIS" => ~TokHas(k, TF_SENT_END_STRONG)
            /\ ~(TokHas(k, TF_SENT_END_STRONG) /\ TokHas(k, TF_SENT_END_WEAK))

\* tokenize("a.))"): the full stop is strong-end and both brackets after it
\* are weak-end
C21_Witness ==
    /\ tk # NoFrame
    /\ tk.text = <<"a", ".", ")", ")">>
    /\ Len(tk.tokens) = 4
    /\ TokHas(2, TF_SENT_END_STRONG) /\ ~TokHas(2, TF_SENT_END_WEAK)
    /\ TokHas(3, TF_SENT_END_WEAK) /\ TokHas(4, TF_SENT_END_WEAK)
    /\ ~TokHas(1, TF_SENT_END_WEAK)

-----------------------------------------------------------------------------
(* Morphology: morph.py.  Strings are sequences of characters, as in the   *)
(* tokenizer; a rule reads the text and the flags of a token only.         *)

POS_X == 0
POS_NOUN == 1
POS_VERB == 2
POS_ADJ == 3
POS_ADV == 4
POS_PRON == 5
POS_DET == 6
POS_ADP == 7
POS_CCONJ == 8
POS_SCONJ == 9
POS_PUNCT == 10
POS_NUM == 11
POS_PROPN == 12
POS_AUX == 13

TENSE_NONE == 0
TENSE_PRES == 1
TENSE_PAST == 2
NUM_NONE == 0
NUM_SING == 1
NUM_PLUR == 2
PER_NONE == 0
PER_1 == 1
PER_2 == 2
PER_3 == 3

\* mutant: the POS field is three bits wide
pack_bits_NarrowPos(pos, tense, num, per) ==
    (pos % 8) + (tense % 4) * 16 + (num % 4) * 64 + (per % 4) * 256

\* (pos & 0xF) | ((tense & 0x3) << 4) | ((num & 0x3) << 6) | ((per & 0x3) << 8):
\* the four masked fields lie in separate bits, so the OR is their sum
pack_bits(pos, tense, num, per) ==
    (pos % 16) + (tense % 4) * 16 + (num % 4) * 64 + (per % 4) * 256

STOP ==
    { <<"a">>, <<"a", "n">>, <<"a", "n", "d">>, <<"a", "r", "e">>, <<"a", "s">>, <<"a", "t">>,
      <<"b", "e">>, <<"b", "e", "c", "a", "u", "s", "e">>, <<"b", "e", "e", "n">>,
      <<"b", "e", "i", "n", "g">>, <<"b", "u", "t">>, <<"b", "y">>, <<"d", "i", "d">>,
      <<"d", "o">>, <<"d", "o", "e", "s">>, <<"f", "o", "r">>, <<"f", "r", "o", "m">>,
      <<"h", "a", "d">>, <<"h", "a", "s">>, <<"h", "a", "v", "e">>, <<"h", "e">>,
      <<"h", "e", "r">>, <<"h", "i", "m">>, <<"i">>, <<"i", "f">>, <<"i", "n">>, <<"i", "s">>,
      <<"i", "t">>, <<"m", "e">>, <<"n", "o">>, <<"n", "o", "t">>, <<"o", "f">>, <<"o", "n">>,
      <<"o", "r">>, <<"s", "h", "e">>, <<"s", "o">>, <<"t", "h", "a", "n">>,
      <<"t", "h", "a", "t">>, <<"t", "h", "e">>, <<"t", "h", "e", "m">>, <<"t", "h", "e", "n">>,
      <<"t", "h", "e", "s", "e">>, <<"t", "h", "e", "y">>, <<"t", "h", "i", "s">>,
      <<"t", "h", "o", "s", "e">>, <<"t", "o">>, <<"u", "s">>, <<"w", "a", "s">>, <<"w", "e">>,
      <<"w", "e", "r", "e">>, <<"w", "h", "i", "c", "h">>, <<"w", "h", "o">>,
      <<"w", "h", "o", "m">>, <<"w", "h", "o", "s", "e">>, <<"w", "i", "t", "h">>,
      <<"y", "e", "s">>, <<"y", "e", "t">>, <<"y", "o", "u">> }

PRON ==
    { <<"h", "e">>, <<"h", "e", "r">>, <<"h", "i", "m">>, <<"h", "i", "s">>, <<"i">>,
      <<"i", "t">>, <<"m", "e">>, <<"m", "y">>, <<"o", "u", "r">>, <<"s", "h", "e">>,
      <<"t", "h", "e", "i", "r">>, <<"t", "h", "e", "m">>, <<"t", "h", "e", "y">>, <<"u", "s">>,
      <<"w", "e">>, <<"y", "o", "u">>, <<"y", "o", "u", "r">> }

DET ==
    { <<"a">>, <<"a", "n">>, <<"t", "h", "a", "t">>, <<"t", "h", "e">>,
      <<"t", "h", "e", "s", "e">>, <<"t", "h", "i", "s">>, <<"t", "h", "o", "s", "e">> }

ADP ==
    { <<"a", "s">>, <<"a", "t">>, <<"b", "e", "t", "w", "e", "e", "n">>, <<"b", "y">>,
      <<"f", "o", "r">>, <<"f", "r", "o", "m">>, <<"i", "n">>, <<"i", "n", "t", "o">>,
      <<"o", "f">>, <<"o", "n">>, <<"o", "n", "t", "o">>, <<"o", "v", "e", "r">>,
      <<"t", "h", "r", "o", "u", "g", "h">>, <<"t", "o">>, <<"u", "n", "d", "e", "r">>,
      <<"w", "i", "t", "h">> }

CCONJ ==
    { <<"a", "n", "d">>, <<"b", "u", "t">>, <<"n", "o", "r">>, <<"o", "r">>, <<"s", "o">>,
      <<"y", "e", "t">> }

SCONJ ==
    { <<"a", "l", "t", "h", "o", "u", "g", "h">>, <<"b", "e", "c", "a", "u", "s", "e">>,
      <<"i", "f">>, <<"s", "i", "n", "c", "e">>, <<"t", "h", "a", "t">>,
      <<"t", "h", "o", "u", "g", "h">>, <<"u", "n", "l", "e", "s", "s">>, <<"w", "h", "e", "n">>,
      <<"w", "h", "i", "l", "e">> }

\* surface form, lemma, tense, number, person
AUX_MAP ==
    { <<<<"a", "m">>, <<"b", "e">>, TENSE_PRES, NUM_SING, PER_1>>,
      <<<<"a", "r", "e">>, <<"b", "e">>, TENSE_PRES, NUM_NONE, PER_NONE>>,
      <<<<"i", "s">>, <<"b", "e">>, TENSE_PRES, NUM_SING, PER_3>>,
      <<<<"w", "a", "s">>, <<"b", "e">>, TENSE_PAST, NUM_SING, PER_1>>,
      <<<<"w", "e", "r", "e">>, <<"b", "e">>, TENSE_PAST, NUM_NONE, PER_NONE>>,
      <<<<"b", "e">>, <<"b", "e">>, TENSE_NONE, NUM_NONE, PER_NONE>>,
      <<<<"b", "e", "e", "n">>, <<"b", "e">>, TENSE_NONE, NUM_NONE, PER_NONE>>,
      <<<<"b", "e", "i", "n", "g">>, <<"b", "e">>, TENSE_NONE, NUM_NONE, PER_NONE>>,
      <<<<"h", "a", "v", "e">>, <<"h", "a", "v", "e">>, TENSE_PRES, NUM_NONE, PER_NONE>>,
      <<<<"h", "a", "s">>, <<"h", "a", "v", "e">>, TENSE_PRES, NUM_SING, PER_3>>,
      <<<<"h", "a", "d">>, <<"h", "a", "v", "e">>, TENSE_PAST, NUM_NONE, PER_NONE>>,
      <<<<"d", "o">>, <<"d", "o">>, TENSE_PRES, NUM_NONE, PER_NONE>>,
      <<<<"d", "o", "e", "s">>, <<"d", "o">>, TENSE_PRES, NUM_SING, PER_3>>,
      <<<<"d", "i", "d">>, <<"d", "o">>, TENSE_PAST, NUM_NONE, PER_NONE>>,
      <<<<"c", "a", "n">>, <<"c", "a", "n">>, TENSE_NONE, NUM_NONE, PER_NONE>>,
      <<<<"c", "o", "u", "l", "d">>, <<"c", "o", "u", "l", "d">>, TENSE_NONE, NUM_NONE, PER_NONE>>,
      <<<<"m", "a", "y">>, <<"m", "a", "y">>, TENSE_NONE, NUM_NONE, PER_NONE>>,
      <<<<"m", "i", "g", "h", "t">>, <<"m", "i", "g", "h", "t">>, TENSE_NONE, NUM_NONE, PER_NONE>>,
      <<<<"m", "u", "s", "t">>, <<"m", "u", "s", "t">>, TENSE_NONE, NUM_NONE, PER_NONE>>,
      <<<<"s", "h", "o", "u", "l", "d">>, <<"s", "h", "o", "u", "l", "d">>, TENSE_NONE, NUM_NONE, PER_NONE>>,
      <<<<"w", "o", "u", "l", "d">>, <<"w", "o", "u", "l", "d">>, TENSE_NONE, NUM_NONE, PER_NONE>>,
      <<<<"w", "i", "l", "l">>, <<"w", "i", "l", "l">>, TENSE_NONE, NUM_NONE, PER_NONE>>,
      <<<<"s", "h", "a", "l", "l">>, <<"s", "h", "a", "l", "l">>, TENSE_NONE, NUM_NONE, PER_NONE>> }

\* str.lower() on the characters of the model
LowerOf ==
    [A |-> "a", B |-> "b", C |-> "c", D |-> "d", E |-> "e", F |-> "f", G |-> "g", H |-> "h",
     I |-> "i", J |-> "j", K |-> "k", L |-> "l", M |-> "m", N |-> "n", O |-> "o", P |-> "p",
     Q |-> "q", R |-> "r", S |-> "s", T |-> "t", U |-> "u", V |-> "v", W |-> "w", X |-> "x",
     Y |-> "y", Z |-> "z"]
lower_char(ch) ==
    IF ch \in DOMAIN LowerOf THEN LowerOf[ch]
    ELSE IF ch = "U+00C9" THEN "U+00E9"
    ELSE ch
lower(s) == [j \in 1..Len(s) |-> lower_char(s[j])]

\* s.endswith(suffix) and s[:-n]
EndsWith(s, suffix) ==
    Len(s) >= Len(suffix) /\ SubSeq(s, Len(s) - Len(suffix) + 1, Len(s)) = suffix
DropLast(s, n) == SubSeq(s, 1, Len(s) - n)

\* s.replace("’", "'").replace("‘", "'")
norm_apostrophes(s) == [j \in 1..Len(s) |-> IF s[j] \in {"U+2019", "U+2018"} THEN "'" ELSE s[j]]

strip_possessive(s) ==
    LET s2 == norm_apostrophes(s)
    IN  IF EndsWith(s2, <<"'", "s">>) THEN DropLast(s2, 2)
        ELSE IF EndsWith(s2, <<"'">>) THEN DropLast(s2, 1)
        ELSE s2

lemma_guess(low) ==
    IF EndsWith(low, <<"i", "n", "g">>) /\ Len(low) > 4 THEN DropLast(low, 3)
    ELSE IF EndsWith(low, <<"e", "d">>) /\ Len(low) > 3 THEN DropLast(low, 2)
    ELSE IF EndsWith(low, <<"s">>) /\ Len(low) > 3 /\ ~EndsWith(low, <<"s", "s">>)
         THEN DropLast(low, 1)
    ELSE low

\* ^[A-Z][A-Za-z]+$ ; the $ also matches before a newline that ends the string
RE_INITIAL_CAP_match(raw) ==
    LET body == IF Len(raw) > 0 /\ raw[Len(raw)] = "\n" THEN DropLast(raw, 1) ELSE raw
    IN  /\ Len(body) >= 2
        /\ body[1] \in AsciiUpper
        /\ \A j \in 2..Len(body) : body[j] \in AsciiLetter

\* what a rule decides for a token, before the lemma is interned
Decision(lemma, pos, bits, is_stop) ==
    [lemma |-> lemma, pos |-> pos, bits |-> bits, is_stop |-> is_stop]

NoClass == -1

\* mutant: the subordinating conjunctions are looked up before the determiners
closed_class_SconjFirst(low) ==
    IF low \in PRON THEN POS_PRON
    ELSE IF low \in SCONJ THEN POS_SCONJ
    ELSE IF low \in DET THEN POS_DET
    ELSE IF low \in ADP THEN POS_ADP
    ELSE IF low \in CCONJ THEN POS_CCONJ
    ELSE NoClass

\* the closed classes, in the order of the if statements
closed_class(low) ==
    IF low \in PRON THEN POS_PRON
    ELSE IF low \in DET THEN POS_DET
    ELSE IF low \in ADP THEN POS_ADP
    ELSE IF low \in CCONJ THEN POS_CCONJ
    ELSE IF low \in SCONJ THEN POS_SCONJ
    ELSE NoClass

\* the body of the loop of analyze_tokens up to the append
morph_of(t) ==
    LET raw == t.text
        norm == strip_possessive(norm_apostrophes(raw))
        low == lower(norm)
    IN  IF HasFlag(t.flags, TF_PUNCT)
        THEN Decision(norm, POS_PUNCT, pack_bits(POS_PUNCT, 0, 0, 0), FALSE)
        ELSE IF HasFlag(t.flags, TF_NUM)
        THEN Decision(low, POS_NUM, pack_bits(POS_NUM, 0, 0, 0), FALSE)
        ELSE IF closed_class(low) # NoClass
        THEN Decision(low, closed_class(low), pack_bits(closed_class(low), 0, 0, 0), TRUE)
        ELSE IF \E e \in AUX_MAP : e[1] = low
        THEN LET e == CHOOSE e \in AUX_MAP : e[1] = low
             IN  Decision(e[2], POS_AUX, pack_bits(POS_AUX, e[3], e[4], e[5]), low \in STOP)
        ELSE IF RE_INITIAL_CAP_match(raw)
        THEN Decision(raw, POS_PROPN, pack_bits(POS_PROPN, 0, 0, 0), FALSE)
        ELSE Decision(lemma_guess(low), POS_NOUN, pack_bits(POS_NOUN, 0, 0, 0), low \in STOP)

\* mutant: the surface text is interned, not the lemma
analyze_step_InternsSurface(d, l, t) ==
    LET m == morph_of(t)
        r == get_id(d, l, t.text)
    IN  [tok2id |-> r.tok2id, id2tok |-> r.id2tok,
         info |-> MorphInfo(m.lemma, r.ret, m.pos, m.bits, m.is_stop)]

\* out.append(MorphInfo(lemma, vocab.get_id(lemma), pos, bits, is_stop))
analyze_step(d, l, t) ==
    LET m == morph_of(t)
        r == get_id(d, l, m.lemma)
    IN  [tok2id |-> r.tok2id, id2tok |-> r.id2tok,
         info |-> MorphInfo(m.lemma, r.ret, m.pos, m.bits, m.is_stop)]

\* for t in tokens, from token i on (i counts from 0)
RECURSIVE analyze_loop(_, _, _, _, _)
analyze_loop(tokens, i, d, l, out) ==
    IF i >= Len(tokens) THEN [tok2id |-> d, id2tok |-> l, out |-> out]
    ELSE LET r == analyze_step(d, l, tokens[i + 1])
         IN  analyze_loop(tokens, i + 1, r.tok2id, r.id2tok, Append(out, r.info))

analyze_tokens(tokens, d, l) == analyze_loop(tokens, 0, d, l, <<>>)

-----------------------------------------------------------------------------
(* analyze_tokens as a state machine: a Vocabulary, empty or already in    *)
(* use, a first call on a token list and later calls on the same or on     *)
(* other lists with the same Vocabulary.                                   *)

MaxMorph == 2
MaxCalls == 2

\* a token as analyze_tokens reads it: text and flags
MorphToken(text, flags) == Token(0, text, 0, Len(text), flags)

MorphTokenSamples ==
    { MorphToken(<<".">>, TF_PUNCT + TF_SENT_END_STRONG),
      MorphToken(<<"t", "h", "e">>, TF_PUNCT + TF_NUM),
      MorphToken(<<"B", "1">>, TF_NUM + TF_CAP),
      MorphToken(<<"H", "e">>, TF_CAP),
      MorphToken(<<"t", "h", "a", "t">>, 0),
      MorphToken(<<"t", "h", "e", "U+2019", "s">>, 0),
      MorphToken(<<"t", "o">>, 0),
      MorphToken(<<"s", "o">>, 0),
      MorphToken(<<"i", "f">>, 0),
      MorphToken(<<"i", "s">>, 0),
      MorphToken(<<"A", "r", "e">>, TF_CAP),
      MorphToken(<<"B", "o", "b">>, TF_CAP),
      MorphToken(<<"B", "o", "b", "U+2019", "s">>, TF_CAP),
      MorphToken(<<"B", "o", "b", "\n">>, TF_CAP),
      MorphToken(<<"m", "o", "v", "i", "n", "g">>, 0),
      MorphToken(<<"m", "o", "v", "e", "d">>, 0),
      MorphToken(<<"b", "o", "s", "s">>, 0),
      MorphToken(<<"'">>, 0),
      MorphToken(<<"U+00C9", "a">>, TF_CAP) }

MorphInputs == SeqsUpTo(MorphTokenSamples, MaxMorph)

\* the token lists of the later calls
MorphLater ==
    { << MorphToken(<<"b", "e">>, 0), MorphToken(<<"B", "o", "b">>, TF_CAP) >>,
      << MorphToken(<<"m", "o", "v", "e", "d">>, 0) >>,
      << >> }

\* Vocab(), and a Vocabulary that has interned "be" and "." before
VocabSamples ==
    { [tok2id |-> <<>>, id2tok |-> <<>>],
      LET r == get_id(<<>>, <<>>, <<"b", "e">>)
          q == get_id(r.tok2id, r.id2tok, <<".">>)
      IN  [tok2id |-> q.tok2id, id2tok |-> q.id2tok] }

InitMorph ==
    /\ WorkersIdle
    /\ HeapIdle
    /\ \E v \in VocabSamples : tok2id = v.tok2id /\ id2tok = v.id2tok
    /\ vcall = NoVocabCall
    /\ seen = <<>>
    /\ mo \in { [pc |-> "idle", ncalls |-> 0, tokens |-> tokens, out |-> <<>>, hist |-> <<>>] :
                tokens \in MorphInputs }
    /\ CodecAt(NoGraph)
    /\ BuilderIdle
    /\ SegIdle
    /\ TokIdle
    /\ VarintIdle
    /\ AnnIdle

\* morphs = analyze_tokens(tokens, vocab) with the Vocabulary of the run
Analyze(tokens) ==
    LET r == analyze_tokens(tokens, tok2id, id2tok)
    IN  /\ tok2id' = r.tok2id
        /\ id2tok' = r.id2tok
        /\ mo' = [pc |-> "called", ncalls |-> mo.ncalls + 1, tokens |-> tokens, out |-> r.out,
                  hist |-> mo.hist \o mo.out]
        /\ UNCHANGED <<vcall, seen>>
        /\ UNCHANGED <<codecVars, builderVars, segVars, tokVars, varintVars, annVars, heapVars, workerVars>>

AnalyzeFirst == mo.ncalls = 0 /\ Analyze(mo.tokens)

AnalyzeLater ==
    /\ mo.ncalls >= 1 /\ mo.ncalls < MaxCalls
    /\ \E tokens \in MorphLater \cup {mo.tokens} : Analyze(tokens)

NextMorph == AnalyzeFirst \/ AnalyzeLater

SpecMorph == InitMorph /\ [][NextMorph]_vars

-----------------------------------------------------------------------------
(* The rule cascade, the packed bits and the lemma ids, over SpecMorph.    *)

\* the text the closed-class and auxiliary rules look up
LookedUp(t) == lower(strip_possessive(norm_apostrophes(t.text)))

\* which of the ten rules of the cascade match token t, in the order of the claim
Matches(t) ==
    LET low == LookedUp(t)
    IN  << HasFlag(t.flags, TF_PUNCT),
           HasFlag(t.flags, TF_NUM),
           low \in PRON,
           low \in DET,
           low \in ADP,
           low \in CCONJ,
           low \in SCONJ,
           \E e \in AUX_MAP : e[1] = low,
           RE_INITIAL_CAP_match(t.text),
           TRUE >>
\* rule number j of the cascade matches token t, and the part of speech it gives
RuleMatches(j, t) == Matches(t)[j]
RulePos ==
    <<POS_PUNCT, POS_NUM, POS_PRON, POS_DET, POS_ADP, POS_CCONJ, POS_SCONJ, POS_AUX, POS_PROPN,
      POS_NOUN>>
FirstRule(t) ==
    LET m == Matches(t)
    IN  CHOOSE j \in 1..10 : m[j] /\ \A o \in 1..(j - 1) : ~m[o]

BitsPos(bits) == bits % 16
BitsTense(bits) == (bits \div 16) % 4
BitsNumber(bits) == (bits \div 64) % 4
BitsPerson(bits) == (bits \div 256) % 4

\* pack_bits keeps each field in its own bits, for every POS code and every
\* two-bit tense, number and person
PackedExactly ==
    \A pos \in 0..13, tense \in 0..3, num \in 0..3, per \in 0..3 :
        LET bits == pack_bits(pos, tense, num, per)
        IN  /\ bits \in 0..1023
            /\ BitsPos(bits) = pos /\ BitsTense(bits) = tense
            /\ BitsNumber(bits) = num /\ BitsPerson(bits) = per

(* C23: for every MorphInfo produced by analyze_tokens, bits is a value    *)
(* below 2^10 whose bits 0-3 equal the POS code in pos, bits 4-5 the       *)
(* tense, bits 6-7 the number and bits 8-9 the person; tense, number and   *)
(* person are all 0 unless the token matched the auxiliary/modal table,    *)
(* and no field overflows into a neighbouring field for any POS code       *)
(* 0..13.                                                                  *)
C23_PackedBits ==
    /\ mo.pc = "called" =>
          \A i \in 1..Len(mo.out) :
              LET m == mo.out[i]
                  aux == { e \in AUX_MAP : e[1] = LookedUp(mo.tokens[i]) }
              IN  /\ m.bits \in 0..1023
                  /\ BitsPos(m.bits) = m.pos
                  /\ IF m.pos = POS_AUX
                     THEN \E e \in aux : /\ BitsTense(m.bits) = e[3]
                                         /\ BitsNumber(m.bits) = e[4]
                                         /\ BitsPerson(m.bits) = e[5]
                     ELSE BitsTense(m.bits) = 0 /\ BitsNumber(m.bits) = 0 /\ BitsPerson(m.bits) = 0
    /\ PackedExactly

\* 'is' came out as AUX, present, singular, third person (861), and the full
\* stop after it as PUNCT with no tense, number or person (10)
C23_Witness ==
    /\ mo.pc = "called" /\ Len(mo.out) = 2
    /\ mo.tokens[1].text = <<"i", "s">> /\ mo.out[1].pos = POS_AUX
    /\ mo.out[1].bits = 13 + 16 * TENSE_PRES + 64 * NUM_SING + 256 * PER_3
    /\ mo.out[2].pos = POS_PUNCT /\ mo.out[2].bits = 10

\* every MorphInfo the calls made so far have returned, oldest first
Analysed == mo.hist \o mo.out

(* C24: for every token sequence and every Vocabulary state, each          *)
(* MorphInfo returned by analyze_tokens has lemma_id >= 1 with             *)
(* vocab.get_str(lemma_id) equal to its lemma string, and two tokens       *)
(* analysed with the same Vocabulary (in the same or in successive calls)  *)
(* have equal lemma_id if and only if their lemma strings are equal.       *)
C24_LemmaIds ==
    /\ \A i \in 1..Len(Analysed) :
          /\ Analysed[i].lemma_id >= 1
          /\ get_str(id2tok, Analysed[i].lemma_id) = Analysed[i].lemma
    /\ \A i, j \in 1..Len(Analysed) :
          (Analysed[i].lemma_id = Analysed[j].lemma_id) <=> (Analysed[i].lemma = Analysed[j].lemma)

\* a Vocabulary that held "be" and "." before: 'moving' and 'Bob' were
\* analysed in the first call, 'moved' in the second; 'moving' and 'moved'
\* share the lemma 'mov' and the id 3, 'Bob' has the id 4
C24_Witness ==
    /\ mo.ncalls = 2 /\ Len(mo.hist) = 2 /\ Len(mo.out) = 1
    /\ mo.hist[1].lemma = <<"m", "o", "v">> /\ mo.hist[1].lemma_id = 3
    /\ mo.hist[2].lemma = <<"B", "o", "b">> /\ mo.hist[2].lemma_id = 4
    /\ mo.tokens[1].text = <<"m", "o", "v", "e", "d">>
    /\ mo.out[1].lemma = <<"m", "o", "v">> /\ mo.out[1].lemma_id = 3
    /\ get_str(id2tok, 1) = <<"b", "e">>

-----------------------------------------------------------------------------
(* The byte layout of encode_pgraph, over SpecCodec.  The layout is        *)
(* written out here byte group by byte group and compared with blob.       *)

\* a non-negative int as a varint: 7 bits a byte, low bits first, bit 7 set on
\* every byte but the last
VarintBytes(v) ==
    IF v.mag = <<>> THEN <<0>>
    ELSE [j \in 1..Len(v.mag) |-> v.mag[j] + (IF j < Len(v.mag) THEN 128 ELSE 0)]
OneByte(x) == <<x % 256>>
TwoBytesLE(x) == <<x % 256, (x \div 256) % 256>>

RECURSIVE Flat(_)
Flat(groups) == IF groups = <<>> THEN <<>> ELSE Head(groups) \o Flat(Tail(groups))

HeaderBytes(g) ==
    Flat(<<VarintBytes(g.graph_id), OneByte(g.graph_type), VarintBytes(g.num_nodes),
           VarintBytes(g.num_edges), VarintBytes(g.source_id), VarintBytes(g.version),
           OneByte(g.schema_id)>>)
NodeBytes(n) ==
    Flat(<<VarintBytes(n.node_id), OneByte(n.n_type), OneByte(n.sub_type),
           VarintBytes(n.features_ref), VarintBytes(n.span[1]), VarintBytes(n.span[2]),
           TwoBytesLE(n.flags), OneByte(n.confidence), VarintBytes(n.label_id)>>)
EdgeBytes(e) ==
    Flat(<<VarintBytes(e.src_id), VarintBytes(e.dst_id), OneByte(e.e_type), OneByte(e.weight),
           VarintBytes(e.time), TwoBytesLE(e.flags), OneByte(e.confidence),
           VarintBytes(e.attr_ref)>>)
ThumbnailBytes(g) ==
    IF g.g_features.some /\ Len(g.g_features.bytes) > 0
    THEN VarintBytes(PyInt(Len(g.g_features.bytes))) \o g.g_features.bytes
    ELSE <<0>>
LayoutBytes(g) ==
    <<80, 71, 82, 65>> \o HeaderBytes(g)
    \o Flat([k \in 1..Len(g.nodes) |-> NodeBytes(g.nodes[k])])
    \o Flat([k \in 1..Len(g.edges) |-> EdgeBytes(g.edges[k])])
    \o ThumbnailBytes(g)

(* C25: encode_pgraph emits exactly this byte sequence: the 4-byte magic   *)
(* "PGRA"; the header graph_id (varint), graph_type (1 byte), num_nodes,   *)
(* num_edges, source_id, version (varints), schema_id (1 byte); one        *)
(* record per node in node order as id, type, subtype, features_ref,       *)
(* span_start, span_end, flags (2 bytes little-endian), confidence,        *)
(* label_id; one record per edge in edge order as src_id, dst_id, type,    *)
(* weight, time, flags (2 bytes little-endian), confidence, attr_ref;      *)
(* then the thumbnail length as a varint followed by that many raw bytes   *)
(* only if it is non-zero; and nothing else.                               *)
C25_ByteLayout ==
    (Called(blob) /\ blob.ok) => blob.bytes = LayoutBytes(cg)

\* a graph with a node, an edge and a 64-byte thumbnail was encoded: the last
\* 65 bytes are the length 64 and the thumbnail
C25_Witness ==
    /\ Called(blob) /\ blob.ok
    /\ Len(cg.nodes) = 1 /\ Len(cg.edges) = 1
    /\ cg.nodes[1].sub_type # cg.nodes[1].n_type % 256
    /\ cg.g_features.some /\ Len(cg.g_features.bytes) = 64
    /\ SubSeq(blob.bytes, Len(blob.bytes) - 64, Len(blob.bytes)) = <<64>> \o cg.g_features.bytes
    /\ SubSeq(blob.bytes, 1, 4) = <<80, 71, 82, 65>>

-----------------------------------------------------------------------------
(* tokens_to_graph: tokenizer.py 152-199.                                  *)

\* mutant: the token flags are handed to add_node as they are
node_flags_Verbatim(t) == t.flags

\* nflags of a token
node_flags(t) ==
    (IF HasFlag(t.flags, TF_PUNCT) THEN NF_IS_PUNCT ELSE 0)
    + (IF HasFlag(t.flags, TF_CAP) THEN NF_IS_CAPITALIZED ELSE 0)
    + (IF HasFlag(t.flags, TF_SENT_END_STRONG) THEN NF_SENT_END_STRONG ELSE 0)
    + (IF HasFlag(t.flags, TF_SENT_END_WEAK) THEN NF_SENT_END_WEAK ELSE 0)

\* for t in toks: node_id = gb.add_node(...); node_ids.append(node_id)
RECURSIVE add_token_nodes(_, _, _, _)
add_token_nodes(b, toks, k, node_ids) ==
    IF k >= Len(toks) THEN [gb |-> b, node_ids |-> node_ids]
    ELSE LET t == toks[k + 1]
             r == add_node(b, NodeType_TOKEN, 0, PyInt(0), <<PyInt(t.start), PyInt(t.end)>>,
                           node_flags(t), 255, PyInt(0))
         IN  add_token_nodes(r.gb, toks, k + 1, Append(node_ids, r.ret))

\* for a, b in zip(node_ids, node_ids[1:]): gb.add_edge(a, b, EdgeType.NEXT)
RECURSIVE add_next_edges(_, _, _)
add_next_edges(b, node_ids, k) ==
    IF k + 1 >= Len(node_ids) THEN b
    ELSE add_next_edges(add_edge(b, node_ids[k + 1], node_ids[k + 2], EdgeType_NEXT, 255,
                                 PyInt(0), EF_DIRECTED, 255, PyInt(0)).gb,
                        node_ids, k + 1)

\* the builder as tokens_to_graph leaves it, for the tokens toks
token_builder(toks, graph_id, source_id, version) ==
    LET b0 == GraphBuilder(graph_id, SchemaID_WRITING, GraphType_HETERO, source_id, version, None)
        r == add_token_nodes(b0, toks, 0, <<>>)
    IN  add_next_edges(r.gb, r.node_ids, 0)

tokens_to_graph(text, graph_id, source_id, version) ==
    finalize(token_builder(tokenize(text), graph_id, source_id, version))

\* the graph ids the calls are made with
GraphIdSamples == {PyInt(0), PyInt(300)}

InitGraph ==
    /\ WorkersIdle
    /\ HeapIdle
    /\ txt \in TokTexts
    /\ tk = NoFrame
    /\ out1 = NoResult
    /\ out2 = NoResult
    /\ mid = FALSE
    /\ BuilderIdle
    /\ CodecAt(NoGraph)
    /\ VocabIdle
    /\ SegIdle
    /\ VarintIdle
    /\ AnnIdle
    /\ MorphIdle

\* g = tokens_to_graph(txt, graph_id=...)
TokensToGraph ==
    /\ fin = NoGraph
    /\ \E graph_id \in GraphIdSamples :
          /\ tk' = run_tokenize(NewFrame(txt))
          /\ gb' = token_builder(tk'.tokens, graph_id, PyInt(0), PyInt(1))
          /\ fin' = finalize(gb')
    /\ UNCHANGED <<txt, out1, out2, mid, gcall, calls, finShares>>
    /\ UNCHANGED <<codecVars, vocabVars, segVars, varintVars, annVars, morphVars, heapVars, workerVars>>

NextGraph == TokensToGraph

SpecGraph == InitGraph /\ [][NextGraph]_vars

\* 1 if the token has the flag, else 0
Bit(t, flag) == IF HasFlag(t.flags, flag) THEN 1 ELSE 0

(* C26: for every text with n tokens, tokens_to_graph returns a Graph      *)
(* with exactly n nodes of type TOKEN, node i having span equal to token   *)
(* i's (start, end), label_id 0, sub_type 0 and node flags that are        *)
(* exactly the image of the token's capitalized, punctuation, strong-end   *)
(* and weak-end flags (node bits 2, 3, 6 and 7; the numeric flag is not    *)
(* carried over), and exactly max(0, n-1) edges, edge i being a directed   *)
(* NEXT edge from node i to node i+1; so every edge endpoint refers to an  *)
(* existing node.                                                          *)
C26_TokenGraph ==
    fin # NoGraph =>
        LET toks == tokenize(txt)
            n == Len(toks)
        IN  /\ Len(fin.nodes) = n /\ fin.num_nodes = PyInt(n)
            /\ \A i \in 1..n :
                  /\ fin.nodes[i].node_id = PyInt(i - 1)
                  /\ fin.nodes[i].n_type = 1
                  /\ fin.nodes[i].span = <<PyInt(toks[i].start), PyInt(toks[i].end)>>
                  /\ fin.nodes[i].label_id = PyInt(0)
                  /\ fin.nodes[i].sub_type = 0
                  /\ fin.nodes[i].flags = 4 * Bit(toks[i], TF_CAP) + 8 * Bit(toks[i], TF_PUNCT)
                                          + 64 * Bit(toks[i], TF_SENT_END_STRONG)
                                          + 128 * Bit(toks[i], TF_SENT_END_WEAK)
            /\ Len(fin.edges) = (IF n = 0 THEN 0 ELSE n - 1)
            /\ fin.num_edges = PyInt(Len(fin.edges))
            /\ \A i \in 1..Len(fin.edges) :
                  /\ fin.edges[i].src_id = PyInt(i - 1) /\ fin.edges[i].dst_id = PyInt(i)
                  /\ fin.edges[i].e_type = 9
                  /\ fin.edges[i].flags % 2 = 1
                  /\ \E a, b \in 1..n : /\ fin.nodes[a].node_id = fin.edges[i].src_id
                                        /\ fin.nodes[b].node_id = fin.edges[i].dst_id

\* tokens_to_graph("B1.)"): three nodes, the word capitalized (its numeric
\* flag dropped), the full stop punctuation and strong-end, the bracket
\* punctuation and weak-end, and two NEXT edges
C26_Witness ==
    /\ fin # NoGraph
    /\ txt = <<"B", "1", ".", ")">>
    /\ HasFlag(tk.tokens[1].flags, TF_NUM)
    /\ Len(fin.nodes) = 3 /\ Len(fin.edges) = 2
    /\ fin.nodes[1].flags = 4 /\ fin.nodes[2].flags = 72 /\ fin.nodes[3].flags = 136
    /\ fin.edges[2].src_id = PyInt(1) /\ fin.edges[2].dst_id = PyInt(2)

-----------------------------------------------------------------------------
(* Node objects.  add_node makes a Node object and the builder's list      *)
(* holds a reference to it; finalize copies the list, that is the          *)
(* references (graph_builder.py 266); annotate_graph writes to the objects *)
(* it reaches through g.nodes (morph.py 259-264).  hp.heap is the sequence *)
(* of Node objects in the order they were made, a reference is an index    *)
(* into it, and the node lists of hp.gb, hp.g1 and hp.g2 hold references.  *)

MaxShared == 2

\* the nodes a list of references leads to
Deref(heap, refs) == [j \in 1..Len(refs) |-> heap[refs[j]]]

\* a builder or a Graph as it reads: its node list with the objects in it
View(heap, g) == [g EXCEPT !.nodes = Deref(heap, @)]

\* the objects after the nodes reached through refs were given the values vals
WriteBack(heap, refs, vals) ==
    [k \in 1..Len(heap) |->
        IF \E j \in 1..Len(refs) : refs[j] = k
        THEN vals[CHOOSE j \in 1..Len(refs) : refs[j] = k]
        ELSE heap[k]]

ShareTokens == tokenize(<<"A", "r", "e", " ", "y", "o", "u", " ", "o", "k", "a", "y", "?">>)

InitShare ==
    /\ WorkersIdle
    /\ hp = [heap |-> <<>>,
             gb |-> GraphBuilder(PyInt(1), SchemaID_WRITING, GraphType_HETERO, PyInt(0), PyInt(1),
                                 None),
             g1 |-> NoGraph, g2 |-> NoGraph, applied |-> 0, tokens |-> <<>>, morphs |-> <<>>]
    /\ CodecAt(NoGraph)
    /\ BuilderIdle
    /\ VocabIdle
    /\ SegIdle
    /\ TokIdle
    /\ VarintIdle
    /\ AnnIdle
    /\ MorphIdle

\* b.add_node(...): a new Node object, appended to the builder's list
ShareAddNode ==
    /\ Len(hp.gb.nodes) < MaxShared
    /\ \E n \in AnnotateNodes :
          LET r == add_node(View(hp.heap, hp.gb), n.n_type, n.sub_type, n.label_id, n.span,
                            n.flags, n.confidence, n.features_ref)
              made == r.gb.nodes[Len(r.gb.nodes)]
          IN  hp' = [hp EXCEPT !.heap = Append(@, made),
                               !.gb.nodes = Append(@, Len(hp.heap) + 1)]
    /\ UNCHANGED <<codecVars, builderVars, vocabVars, segVars, tokVars, varintVars, annVars, morphVars, workerVars>>

\* b.add_edge(0, 1, EdgeType.NEXT)
ShareAddEdge ==
    /\ Len(hp.gb.edges) < 1
    /\ hp' = [hp EXCEPT !.gb.edges = add_edge(hp.gb, PyInt(0), PyInt(1), EdgeType_NEXT, 255,
                                              PyInt(0), EF_DIRECTED, 255, PyInt(0)).gb.edges]
    /\ UNCHANGED <<codecVars, builderVars, vocabVars, segVars, tokVars, varintVars, annVars, morphVars, workerVars>>

\* g1 = b.finalize()
FinalizeOne ==
    /\ hp.g1 = NoGraph
    /\ hp' = [hp EXCEPT !.g1 = finalize(hp.gb)]
    /\ UNCHANGED <<codecVars, builderVars, vocabVars, segVars, tokVars, varintVars, annVars, morphVars, workerVars>>

\* g2 = b.finalize(), before or after g1 was annotated
FinalizeOther ==
    /\ hp.g1 # NoGraph /\ hp.g2 = NoGraph
    /\ hp' = [hp EXCEPT !.g2 = finalize(hp.gb)]
    /\ UNCHANGED <<codecVars, builderVars, vocabVars, segVars, tokVars, varintVars, annVars, morphVars, workerVars>>

\* annotate_graph(g1, tokens, morphs) writes to the objects g1.nodes refers to
AnnotateWith(tokens, morphs) ==
    LET r == annotate_graph(Deref(hp.heap, hp.g1.nodes), tokens, morphs)
    IN  /\ r.ok
        /\ hp' = [hp EXCEPT !.heap = WriteBack(@, hp.g1.nodes, r.nodes),
                            !.applied = @ + 1, !.tokens = tokens, !.morphs = morphs]
        /\ UNCHANGED <<codecVars, builderVars, vocabVars, segVars, tokVars, varintVars, annVars, morphVars, workerVars>>

AnnotateOne ==
    /\ hp.g1 # NoGraph /\ hp.applied = 0
    /\ \E k \in 0..Len(ShareTokens), morphs \in SeqsUpTo(AnnotateMorphs, MaxShared) :
          AnnotateWith(SubSeq(ShareTokens, 1, k), morphs)

\* the same annotation once more
AnnotateOneAgain ==
    /\ hp.applied = 1
    /\ AnnotateWith(hp.tokens, hp.morphs)

NextShare ==
    ShareAddNode \/ ShareAddEdge \/ FinalizeOne \/ FinalizeOther \/ AnnotateOne \/ AnnotateOneAgain

SpecShare == InitShare /\ [][NextShare]_vars

\* the step is a call of annotate_graph on g1
AnnotateStep == hp'.applied = hp.applied + 1

(* C27: a Graph returned by finalize is independent of everything else     *)
(* built from the same GraphBuilder: applying annotate_graph to one Graph  *)
(* finalized from a builder changes no field of any node of another Graph  *)
(* finalized from the same builder (before or after), and changes no node  *)
(* held by the builder.                                                    *)
C27_Independent ==
    [][AnnotateStep =>
          /\ View(hp'.heap, hp'.g2) = View(hp.heap, hp.g2)
          /\ View(hp'.heap, hp'.gb) = View(hp.heap, hp.gb)]_vars

\* a node with the three fields annotate_graph may write blanked out
Unannotated(node) ==
    [node EXCEPT !.sub_type = 0, !.label_id = PyInt(0),
                 !.flags = IF HasFlag(@, NF_IS_STOP) THEN @ - NF_IS_STOP ELSE @]

(* C30: annotate_graph changes nothing except the sub_type, the label_id   *)
(* and the IS_STOP flag bit of the annotated nodes: every node's node_id,  *)
(* n_type, span, confidence, features_ref and all other flag bits, every   *)
(* edge, the node and edge counts and the graph header are unchanged; an   *)
(* IS_STOP bit that was already set is never cleared, and applying the     *)
(* same annotation twice gives the same graph as applying it once.         *)
C30_AnnotateFrame ==
    [][AnnotateStep =>
          LET before == View(hp.heap, hp.g1)
              after == View(hp'.heap, hp'.g1)
              m == Least(Len(before.nodes), Len(hp'.tokens), Len(hp'.morphs))
          IN  /\ [after EXCEPT !.nodes = <<>>] = [before EXCEPT !.nodes = <<>>]
              /\ Len(after.nodes) = Len(before.nodes)
              /\ \A i \in 1..Len(before.nodes) :
                    /\ Unannotated(after.nodes[i]) = Unannotated(before.nodes[i])
                    /\ HasFlag(before.nodes[i].flags, NF_IS_STOP)
                          => HasFlag(after.nodes[i].flags, NF_IS_STOP)
                    /\ i > m => after.nodes[i] = before.nodes[i]
              /\ hp.applied = 1 => after = before]_vars

\* a graph of two nodes and an edge was annotated twice with two morphs; the
\* first node got its part of speech, the second, flagged IS_STOP before and
\* no stop word by its morph, still has the bit
C30_Witness ==
    /\ hp.applied = 2
    /\ Len(hp.g1.nodes) = 2 /\ Len(hp.g1.edges) = 1
    /\ Len(hp.tokens) >= 2 /\ Len(hp.morphs) = 2
    /\ hp.morphs[1].is_stop /\ ~hp.morphs[2].is_stop
    /\ hp.heap[hp.g1.nodes[1]].sub_type = hp.morphs[1].pos
    /\ hp.heap[hp.g1.nodes[1]].flags = NF_IS_CAPITALIZED + NF_IS_STOP
    /\ hp.heap[hp.g1.nodes[2]].label_id = PyInt(hp.morphs[2].lemma_id)
    /\ hp.heap[hp.g1.nodes[2]].flags = NF_IS_STOP + NF_IS_PUNCT

-----------------------------------------------------------------------------
(* Vocab.get_id step by step: morph.py 75-81.  The method takes no lock,   *)
(* so another thread can run between its statements.  wk.vocab is the      *)
(* sequence of Vocabularies, wk.at[w] the place of worker w: the           *)
(* Vocabulary it uses (v), the statement it is at (pc), its argument s,    *)
(* its local idx, what its last call returned and how many calls it made.  *)

MaxGetId == 2

Workers == {1, 2}
WorkerStrings == {"be", "the"}

\* if s in self._tok2id
get_id_test(V, s) == s \in DOMAIN V.tok2id

\* idx = len(self._id2tok) + 1
get_id_len(V) == Len(V.id2tok) + 1

\* self._tok2id[s] = idx
get_id_set(V, s, idx) == [V EXCEPT !.tok2id = DictSet(@, s, idx)]

\* mutant: the string is not appended to the list
get_id_append_Skipped(V, s) == V

\* self._id2tok.append(s)
get_id_append(V, s) == [V EXCEPT !.id2tok = Append(@, s)]

Resting(v) == [v |-> v, pc |-> "idle", s |-> "", idx |-> 0, ret |-> 0, ncalls |-> 0]

\* one Vocabulary per worker, or one Vocabulary for both
InitWorkers ==
    /\ \E shared \in BOOLEAN :
          wk = [shared |-> shared,
                vocab |-> IF shared THEN << [tok2id |-> <<>>, id2tok |-> <<>>] >>
                          ELSE [w \in Workers |-> [tok2id |-> <<>>, id2tok |-> <<>>]],
                at |-> [w \in Workers |-> Resting(IF shared THEN 1 ELSE w)]]
    /\ CodecAt(NoGraph)
    /\ BuilderIdle
    /\ VocabIdle
    /\ SegIdle
    /\ TokIdle
    /\ VarintIdle
    /\ AnnIdle
    /\ MorphIdle
    /\ HeapIdle

\* worker w calls get_id(s) and runs the membership test
WorkerTest(w) ==
    /\ wk.at[w].pc = "idle" /\ wk.at[w].ncalls < MaxGetId
    /\ \E s \in WorkerStrings :
          LET V == wk.vocab[wk.at[w].v]
          IN  wk' = [wk EXCEPT
                       !.at[w] = IF get_id_test(V, s)
                                 THEN [@ EXCEPT !.s = s, !.ret = V.tok2id[s], !.ncalls = @ + 1]
                                 ELSE [@ EXCEPT !.s = s, !.pc = "len"]]
    /\ UNCHANGED <<codecVars, builderVars, vocabVars, segVars, tokVars, varintVars, annVars, morphVars, heapVars>>

WorkerLen(w) ==
    /\ wk.at[w].pc = "len"
    /\ wk' = [wk EXCEPT !.at[w].idx = get_id_len(wk.vocab[wk.at[w].v]), !.at[w].pc = "set"]
    /\ UNCHANGED <<codecVars, builderVars, vocabVars, segVars, tokVars, varintVars, annVars, morphVars, heapVars>>

WorkerSet(w) ==
    /\ wk.at[w].pc = "set"
    /\ wk' = [wk EXCEPT !.vocab[wk.at[w].v] = get_id_set(@, wk.at[w].s, wk.at[w].idx),
                        !.at[w].pc = "append"]
    /\ UNCHANGED <<codecVars, builderVars, vocabVars, segVars, tokVars, varintVars, annVars, morphVars, heapVars>>

\* the append and the return
WorkerAppend(w) ==
    /\ wk.at[w].pc = "append"
    /\ wk' = [wk EXCEPT !.vocab[wk.at[w].v] = get_id_append(@, wk.at[w].s),
                        !.at[w] = [@ EXCEPT !.pc = "idle", !.ret = wk.at[w].idx, !.ncalls = @ + 1]]
    /\ UNCHANGED <<codecVars, builderVars, vocabVars, segVars, tokVars, varintVars, annVars, morphVars, heapVars>>

Test == \E w \in Workers : WorkerTest(w)
ComputeLen == \E w \in Workers : WorkerLen(w)
SetId == \E w \in Workers : WorkerSet(w)
AppendString == \E w \in Workers : WorkerAppend(w)

NextWorkers == Test \/ ComputeLen \/ SetId \/ AppendString

SpecWorkers == InitWorkers /\ [][NextWorkers]_vars

\* two distinct strings of Vocabulary V hold the same id
SameId(V) == \E s, t \in DOMAIN V.tok2id : s # t /\ V.tok2id[s] = V.tok2id[t]

(* C28: Vocab.get_id has no internal locking and is not atomic            *)
(* (membership test, id computation, dictionary insert and list append    *)
(* are separate steps): the guarantee that distinct strings get distinct  *)
(* ids holds under every interleaving only when each Vocabulary is used   *)
(* by one worker; if two workers share one Vocabulary, there is an        *)
(* interleaving of their get_id steps after which two distinct strings    *)
(* hold the same id (the state C28_Witness, which is reached).            *)
C28_OneWorkerPerVocabulary ==
    ~wk.shared => \A v \in 1..Len(wk.vocab) : ~SameId(wk.vocab[v])

\* two workers on one Vocabulary have both finished a get_id call, on
\* different strings, and both were given the id 1
C28_Witness ==
    /\ wk.shared
    /\ \A w \in Workers : wk.at[w].pc = "idle" /\ wk.at[w].ncalls = 1
    /\ wk.at[1].s # wk.at[2].s
    /\ wk.at[1].ret = 1 /\ wk.at[2].ret = 1
    /\ SameId(wk.vocab[1])

-----------------------------------------------------------------------------
(* Termination of segment_tokens.  iters counts the runs of the loop body. *)

\* segment_tokens with the scheduling of a running program: it takes its next step
SpecSegLive == SpecSeg /\ WF_vars(NextSeg)

\* the step is one run of the loop body
LoopStep == sg.pc = "loop" /\ iters' = iters + 1

(* C29: segment_tokens is a single forward pass that always terminates:    *)
(* on every iteration of its main loop the scan index strictly increases   *)
(* (by one, or to the start of the next sentence), the sentence start      *)
(* never exceeds the scan index, a token already placed in a closed        *)
(* sentence is never examined as a boundary again, and the loop ends       *)
(* after at most token_count iterations.                                   *)
C29_ForwardPass ==
    /\ [][LoopStep =>
            /\ sg'.k > sg.k
            /\ sg'.k = sg.k + 1 \/ (sg'.k = sg'.s /\ sg'.spans # sg.spans)]_vars
    /\ [](sg.pc = "loop" =>
            /\ sg.s <= sg.k /\ sg.k <= sg.n
            /\ \A i \in 1..Len(sg.spans) : sg.spans[i][2] <= sg.k)
    /\ [](iters <= sg.n)
    /\ <>(sg.pc = "done")

\* three tokens were segmented in two runs of the loop body: the first run
\* went from the strong terminator past its closer to the third token
C29_Witness ==
    /\ sg.pc = "done" /\ sg.n = 3 /\ iters = 2
    /\ IsStrong(0) /\ IsWeak(1) /\ ~IsWeak(2) /\ ~IsStrong(2)
    /\ sg.spans = << <<0, 2>>, <<2, 3>> >>
=============================================================================
